---- MODULE Spec2Model ----
(***************************************************************************)
(* Model of the spine-port tools: the type-extraction command              *)
(* (read-java-type.js), the type-diff command (read-java-type-diff.js),    *)
(* the porting-plan generator (generate-porting-plan.js) and the           *)
(* compile-check command (compile-cpp.js).                                 *)
(*                                                                         *)
(* Source lines are modelled by their trimmed text; the tools only ever    *)
(* classify a line by the prefix of its trimmed text, and compare whole    *)
(* lines for identity.  Line numbers are 1-based as in the symbol tables;  *)
(* the JavaScript loops use 0-based indices, kept here as such.            *)
(***************************************************************************)
EXTENDS Integers, Sequences, FiniteSets, TLC

VARIABLES
    symbols,        \* spine-libgdx.json: the current (new) symbol forest
    oldSymbols,     \* spine-libgdx-old.json: the old-revision symbol forest
    files,          \* Java files at the current revision: path -> line array
    oldFiles,       \* Java files at the old revision: path -> line array
    typeName,       \* the command-line argument
    planFile,       \* porting-plan.json, or NoFile
    targetSymbols,  \* <target-runtime>.json: the target symbol forest, or NoFile
    changeList,     \* git diff --name-status between the two commits
    proc,           \* outcome of the last command run
    oldTypeContent, \* type differ: extracted old range
    newTypeContent, \* type differ: extracted new range
    matched,        \* type differ: oldMatched / newMatched flags
    cursor,         \* type differ: loop indices (match pass i, walk i and j)
    out,            \* type differ: entries printed so far
    dpc,            \* type differ: position in the script
    compilerOutput  \* compile check: the lines clang++ prints for the file

cmdVars == <<symbols, oldSymbols, files, oldFiles, typeName, proc>>

diffVars == <<oldTypeContent, newTypeContent, matched, cursor, out, dpc>>

planVars == <<targetSymbols, changeList>>

compileVars == <<compilerOutput>>

vars == <<cmdVars, planFile, planVars, diffVars, compileVars>>

\* ------------------------------------------------------------------ bounds
MaxLines == 5
MaxDiffLen == 3
MaxChanges == 3
MaxStaleChanges == 2
MaxMarks == 1
MaxOutputLines == 5

\* ------------------------------------------------------------- basic helpers
Null == [kind |-> "null"]

NoFile == [missing |-> TRUE]

TypeKinds == {"class", "interface", "enum"}

Min(S) == CHOOSE x \in S : \A y \in S : x <= y

Range(s) == {s[k] : k \in DOMAIN s}

\* Trimmed line texts, one representative per class the tools distinguish.
Blank == ""
DocOpen == "/** doc"
DocStar == "* doc"
Annot == "@Ann"
Code == "code;"
Brace == "}"
LineTexts == {Blank, DocOpen, DocStar, Annot, Code, Brace}

\* trimmed.startsWith('/**')
StartsDocOpen(t) == t = DocOpen
\* trimmed.startsWith('*')
StartsStar(t) == t = DocStar
\* trimmed.startsWith('@')
StartsAt(t) == t = Annot

\* content[i] || ''   (i is a 0-based index)
LineOr(content, i) == IF i + 1 \in DOMAIN content THEN content[i + 1] ELSE ""

Sym(name, kind, file, s, e, children) ==
    [name |-> name, kind |-> kind, file |-> file,
     range |-> [start |-> s, end |-> e], children |-> children]

\* ------------------------------------------------------------------ findType
RECURSIVE search(_, _, _)
search(symbol, parent, name) ==
    LET here == IF symbol.name = name /\ symbol.kind # "package"
                THEN << [symbol |-> symbol, parent |-> parent] >>
                ELSE << >>
        kids[k \in 0..Len(symbol.children)] ==
            IF k = 0 THEN << >>
            ELSE kids[k - 1] \o search(symbol.children[k], symbol, name)
    IN here \o kids[Len(symbol.children)]

findType(syms, name) ==
    LET all[k \in 0..Len(syms)] ==
            IF k = 0 THEN << >>
            ELSE all[k - 1] \o search(syms[k], Null, name)
    IN all[Len(syms)]

\* ----------------------------------------------- stable sort of ranges by start
RECURSIVE InsertByStart(_, _)
InsertByStart(sorted, r) ==
    IF sorted = << >> THEN << r >>
    ELSE IF sorted[Len(sorted)].start - r.start <= 0
         THEN Append(sorted, r)
         ELSE Append(InsertByStart(SubSeq(sorted, 1, Len(sorted) - 1), r),
                     sorted[Len(sorted)])

SortByStart(rs) ==
    LET acc[k \in 0..Len(rs)] ==
            IF k = 0 THEN << >> ELSE InsertByStart(acc[k - 1], rs[k])
    IN acc[Len(rs)]

\* ============================================================================
\* read-java-type-diff.js : extractTypeContent
\* ============================================================================

\* Extend start to include javadoc (loop over i = startLine - 2 .. 0).
RECURSIVE DiffStartScan(_, _, _)
DiffStartScan(content, i, startLine) ==
    IF i < 0 THEN startLine
    ELSE LET trimmed == LineOr(content, i) IN
         IF StartsDocOpen(trimmed) THEN i + 1
         ELSE IF ~StartsStar(trimmed) /\ trimmed # "" /\ ~StartsAt(trimmed)
              THEN startLine
         ELSE IF StartsStar(trimmed) \/ StartsAt(trimmed)
              THEN DiffStartScan(content, i - 1, i + 1)
         ELSE DiffStartScan(content, i - 1, startLine)

\* Extend an inner type's start over javadoc, annotations and blank lines.
RECURSIVE DiffInnerStartScan(_, _, _)
DiffInnerStartScan(content, i, innerStart) ==
    IF i < 0 THEN innerStart
    ELSE LET trimmed == LineOr(content, i) IN
         IF trimmed = "" THEN DiffInnerStartScan(content, i - 1, i + 1)
         ELSE IF ~StartsStar(trimmed) /\ ~StartsDocOpen(trimmed) /\ ~StartsAt(trimmed)
              THEN innerStart
         ELSE IF StartsDocOpen(trimmed) \/ StartsAt(trimmed)
              THEN DiffInnerStartScan(content, i - 1, i + 1)
         ELSE DiffInnerStartScan(content, i - 1, innerStart)

\* Extend an inner type's end over the blank lines that follow it.
RECURSIVE DiffInnerEndScan(_, _, _, _)
DiffInnerEndScan(content, i, endLine, innerEnd) ==
    IF i < endLine /\ i < Len(content)
    THEN IF LineOr(content, i) = ""
         THEN DiffInnerEndScan(content, i + 1, endLine, i + 1)
         ELSE innerEnd
    ELSE innerEnd

DiffInnerRanges(content, typeInfo) ==
    LET endLine == typeInfo.range.end
        kids == typeInfo.children
        acc[k \in 0..Len(kids)] ==
            IF k = 0 THEN << >>
            ELSE IF kids[k].kind \in TypeKinds
                 THEN Append(acc[k - 1],
                        [start |-> DiffInnerStartScan(content, kids[k].range.start - 2,
                                                      kids[k].range.start),
                         end |-> DiffInnerEndScan(content, kids[k].range.end, endLine,
                                                  kids[k].range.end)])
                 ELSE acc[k - 1]
    IN SortByStart(acc[Len(kids)])

\* Variant of the extraction loop that tests `lineNum <= skipUntil + 1`.
RECURSIVE DiffExtractLoopSkipsOneMore(_, _, _, _, _, _)
DiffExtractLoopSkipsOneMore(content, innerRanges, i, endLine, skipUntil, result) ==
    IF ~(i < endLine /\ i < Len(content)) THEN result
    ELSE LET lineNum == i + 1
             hits == {k \in DOMAIN innerRanges :
                         lineNum >= innerRanges[k].start /\ lineNum <= innerRanges[k].end}
             su == IF hits # {} THEN innerRanges[Min(hits)].end ELSE skipUntil
         IN IF lineNum <= su + 1
            THEN DiffExtractLoopSkipsOneMore(content, innerRanges, i + 1, endLine, su, result)
            ELSE DiffExtractLoopSkipsOneMore(content, innerRanges, i + 1, endLine, su,
                     Append(result, [lineNum |-> lineNum, content |-> content[i + 1]]))

\* The extraction loop with its sticky skipUntil marker.
RECURSIVE DiffExtractLoop(_, _, _, _, _, _)
DiffExtractLoop(content, innerRanges, i, endLine, skipUntil, result) ==
    IF ~(i < endLine /\ i < Len(content)) THEN result
    ELSE LET lineNum == i + 1
             hits == {k \in DOMAIN innerRanges :
                         lineNum >= innerRanges[k].start /\ lineNum <= innerRanges[k].end}
             su == IF hits # {} THEN innerRanges[Min(hits)].end ELSE skipUntil
         IN IF lineNum <= su
            THEN DiffExtractLoop(content, innerRanges, i + 1, endLine, su, result)
            ELSE DiffExtractLoop(content, innerRanges, i + 1, endLine, su,
                     Append(result, [lineNum |-> lineNum, content |-> content[i + 1]]))

\* `${indent}// ${count} inner ${classText} excluded from diff` (indentation is
\* not modelled: lines are their trimmed text).
DiffSummaryText(count) ==
    "// " \o ToString(count) \o " inner "
          \o (IF count = 1 THEN "class" ELSE "classes") \o " excluded from diff"

extractTypeContent(content, typeInfo) ==
    IF typeInfo = Null \/ Len(content) = 0 THEN << >>
    ELSE LET startLine == DiffStartScan(content, typeInfo.range.start - 2,
                                        typeInfo.range.start)
             endLine == typeInfo.range.end
             innerRanges == DiffInnerRanges(content, typeInfo)
             result == DiffExtractLoop(content, innerRanges, startLine - 1, endLine,
                                       -1, << >>)
         IN IF Len(innerRanges) > 0
            THEN Append(result, [lineNum |-> -1,
                                 content |-> DiffSummaryText(Len(innerRanges))])
            ELSE result

\* ============================================================================
\* read-java-type.js : extraction
\* ============================================================================

\* Extend an inner type's start over javadoc and annotations.
RECURSIVE ReadExtendedStartScan(_, _, _)
ReadExtendedStartScan(ls, i, extendedStart) ==
    IF i < 0 THEN extendedStart
    ELSE LET line == ls[i + 1] IN
         IF line # "" /\ ~StartsStar(line) /\ ~StartsDocOpen(line) /\ ~StartsAt(line)
         THEN extendedStart
         ELSE IF StartsDocOpen(line) \/ StartsAt(line)
              THEN ReadExtendedStartScan(ls, i - 1, i + 1)
         ELSE ReadExtendedStartScan(ls, i - 1, extendedStart)

innerTypeRanges(ls, typeInfo, isInner) ==
    LET kids == typeInfo.children
        acc[k \in 0..Len(kids)] ==
            IF k = 0 THEN << >>
            ELSE IF kids[k].kind \in TypeKinds
                 THEN Append(acc[k - 1],
                        [name |-> kids[k].name,
                         start |-> ReadExtendedStartScan(ls, kids[k].range.start - 2,
                                                         kids[k].range.start),
                         end |-> kids[k].range.end])
                 ELSE acc[k - 1]
    IN IF ~isInner THEN SortByStart(acc[Len(kids)]) ELSE << >>

\* Go backwards from the type's start line to find the javadoc start.
RECURSIVE ReadActualStartScan(_, _, _)
ReadActualStartScan(ls, i, actualStart) ==
    IF i < 0 THEN actualStart
    ELSE LET trimmed == ls[i + 1] IN
         IF StartsDocOpen(trimmed) THEN i + 1
         ELSE IF StartsStar(trimmed) \/ trimmed = ""
              THEN ReadActualStartScan(ls, i - 1,
                       IF StartsStar(trimmed) THEN i + 1 ELSE actualStart)
         ELSE IF ~StartsAt(trimmed) THEN actualStart
         ELSE ReadActualStartScan(ls, i - 1, actualStart)

\* Look back over the blank lines before an inner type.
RECURSIVE ReadSkipStartScan(_, _, _)
ReadSkipStartScan(ls, i, skipStart) ==
    IF i < 0 THEN skipStart
    ELSE IF ls[i + 1] = "" THEN ReadSkipStartScan(ls, i - 1, i + 1)
    ELSE skipStart

\* Look forward over the blank lines after an inner type.
RECURSIVE ReadSkipEndScan(_, _, _, _)
ReadSkipEndScan(ls, i, typeEndLine, skipEnd) ==
    IF i < Len(ls) /\ i < typeEndLine - 1
    THEN IF ls[i + 1] = "" THEN ReadSkipEndScan(ls, i + 1, typeEndLine, i + 1)
         ELSE skipEnd
    ELSE skipEnd

skipRanges(ls, inner, typeEndLine) ==
    [k \in DOMAIN inner |->
        [start |-> ReadSkipStartScan(ls, inner[k].start - 2, inner[k].start),
         end |-> ReadSkipEndScan(ls, inner[k].end, typeEndLine, inner[k].end)]]

\* Include one more line for a closing brace.
actualEnd(ls, typeEndLine) ==
    IF typeEndLine < Len(ls) /\ ls[typeEndLine + 1] = Brace
    THEN typeEndLine + 1
    ELSE typeEndLine

RECURSIVE ReadExtractLoop(_, _, _, _, _)
ReadExtractLoop(ls, skips, i, lastLine, result) ==
    IF ~(i <= lastLine - 1 /\ i < Len(ls)) THEN result
    ELSE LET lineNum == i + 1
             shouldSkip == \E k \in DOMAIN skips :
                              lineNum >= skips[k].start /\ lineNum <= skips[k].end
         IN IF shouldSkip
            THEN ReadExtractLoop(ls, skips, i + 1, lastLine, result)
            ELSE ReadExtractLoop(ls, skips, i + 1, lastLine,
                     Append(result, [lineNum |-> lineNum, content |-> ls[i + 1]]))

\* `\n${classIndentation}\t// ${skippedInnerCount} inner ${classText} removed`
ReadSummaryText(count) ==
    "// " \o ToString(count) \o " inner "
          \o (IF count = 1 THEN "class" ELSE "classes") \o " removed"

\* The printed lines of read-java-type.js as (lineNum, content) entries; the
\* summary note is the entry with lineNum -1.
readJavaType(ls, match) ==
    LET typeInfo == match.symbol
        parentInfo == match.parent
        isInner == parentInfo # Null /\ parentInfo.kind # "package"
        inner == innerTypeRanges(ls, typeInfo, isInner)
        typeStartLine == typeInfo.range.start
        typeEndLine == typeInfo.range.end
        start == ReadActualStartScan(ls, typeStartLine - 2, typeStartLine)
        skips == skipRanges(ls, inner, typeEndLine)
        result == ReadExtractLoop(ls, skips, start - 1,
                                  actualEnd(ls, typeEndLine), << >>)
    IN IF Len(inner) > 0
       THEN Append(result, [lineNum |-> -1, content |-> ReadSummaryText(Len(inner))])
       ELSE result

\* ============================================================================
\* read-java-type-diff.js : the type differ
\* ============================================================================

Entry(tag, text) == [tag |-> tag, text |-> text]

\* Variant of the "type is new" branch without the lineNum === -1 test.
RECURSIVE NewTypeOutputAllAdded(_, _)
NewTypeOutputAllAdded(new, k) ==
    IF k > Len(new) THEN << >>
    ELSE << Entry("added", new[k].content) >> \o NewTypeOutputAllAdded(new, k + 1)

\* "Type is new" branch: every line is printed with "+ ", the summary bare.
RECURSIVE NewTypeOutput(_, _)
NewTypeOutput(new, k) ==
    IF k > Len(new) THEN << >>
    ELSE << IF new[k].lineNum = -1 THEN Entry("summary", new[k].content)
            ELSE Entry("added", new[k].content) >> \o NewTypeOutput(new, k + 1)

\* oldContentMap.get(content): the indices holding that content, ascending.
oldContentMap(old, content) == {k \in DOMAIN old : old[k].content = content}

NoneMatched(old, new) ==
    [old |-> [k \in DOMAIN old |-> FALSE], new |-> [k \in DOMAIN new |-> FALSE]]

\* Variant of the first pass that claims the first old index with the same
\* content whether or not it is already claimed.
MatchIterIgnoresClaims(old, new, m, i) ==
    LET oldIndices == oldContentMap(old, new[i + 1].content)
    IN IF oldIndices = {} THEN m
       ELSE [old |-> [m.old EXCEPT ![Min(oldIndices)] = TRUE],
             new |-> [m.new EXCEPT ![i + 1] = TRUE]]

\* Variant of the first pass that claims the last unclaimed old index with the
\* same content.
MatchIterLastFree(old, new, m, i) ==
    LET oldIndices == oldContentMap(old, new[i + 1].content)
        free == {k \in oldIndices : ~m.old[k]}
    IN IF free = {} THEN m
       ELSE [old |-> [m.old EXCEPT ![CHOOSE x \in free : \A y \in free : y <= x] = TRUE],
             new |-> [m.new EXCEPT ![i + 1] = TRUE]]

\* One iteration of the first pass, for the new line at 0-based index i.
MatchIter(old, new, m, i) ==
    LET oldIndices == oldContentMap(old, new[i + 1].content)
        free == {k \in oldIndices : ~m.old[k]}
    IN IF free = {} THEN m
       ELSE [old |-> [m.old EXCEPT ![Min(free)] = TRUE],
             new |-> [m.new EXCEPT ![i + 1] = TRUE]]

\* Variant of the output loop that prints the old line for an unchanged pair.
WalkIterPrintsOld(old, new, m, i, j) ==
    IF i < Len(old) /\ old[i + 1].lineNum = -1
    THEN [i |-> i + 1, j |-> j, emit |-> << >>]
    ELSE IF j < Len(new) /\ new[j + 1].lineNum = -1
    THEN [i |-> i, j |-> j + 1, emit |-> << Entry("summary", new[j + 1].content) >>]
    ELSE IF j >= Len(new) \/ (i < Len(old) /\ ~m.old[i + 1])
    THEN [i |-> i + 1, j |-> j, emit |-> << Entry("removed", old[i + 1].content) >>]
    ELSE IF i >= Len(old) \/ (j < Len(new) /\ ~m.new[j + 1])
    THEN [i |-> i, j |-> j + 1, emit |-> << Entry("added", new[j + 1].content) >>]
    ELSE [i |-> i + 1, j |-> j + 1, emit |-> << Entry("unchanged", old[i + 1].content) >>]

\* One iteration of the output loop; i and j are the 0-based cursors.
WalkIter(old, new, m, i, j) ==
    IF i < Len(old) /\ old[i + 1].lineNum = -1
    THEN [i |-> i + 1, j |-> j, emit |-> << >>]
    ELSE IF j < Len(new) /\ new[j + 1].lineNum = -1
    THEN [i |-> i, j |-> j + 1, emit |-> << Entry("summary", new[j + 1].content) >>]
    ELSE IF j >= Len(new) \/ (i < Len(old) /\ ~m.old[i + 1])
    THEN [i |-> i + 1, j |-> j, emit |-> << Entry("removed", old[i + 1].content) >>]
    ELSE IF i >= Len(old) \/ (j < Len(new) /\ ~m.new[j + 1])
    THEN [i |-> i, j |-> j + 1, emit |-> << Entry("added", new[j + 1].content) >>]
    ELSE [i |-> i + 1, j |-> j + 1, emit |-> << Entry("unchanged", new[j + 1].content) >>]

MatchPass(old, new) ==
    LET acc[k \in 0..Len(new)] ==
            IF k = 0 THEN NoneMatched(old, new)
            ELSE MatchIter(old, new, acc[k - 1], k - 1)
    IN acc[Len(new)]

RECURSIVE WalkFrom(_, _, _, _, _)
WalkFrom(old, new, m, i, j) ==
    IF ~(i < Len(old) \/ j < Len(new)) THEN << >>
    ELSE LET w == WalkIter(old, new, m, i, j)
         IN w.emit \o WalkFrom(old, new, m, w.i, w.j)

NewNotice == Entry("notice", "Type is new")

\* Everything the script prints from line 200 on.
DiffPrinted(old, new) ==
    IF Len(old) = 0 THEN << NewNotice >> \o NewTypeOutput(new, 1)
    ELSE WalkFrom(old, new, MatchPass(old, new), 0, 0)

\* ============================================================================
\* The two commands, each run as one step
\* ============================================================================

ProcIdle ==
    [cmd |-> "none", exitCode |-> 0, error |-> "none", listed |-> << >>,
     stdout |-> << >>, range |-> << >>, oldRange |-> << >>]

\* process.exit(1) after console.error: nothing was printed to stdout.
Failed(cmd, error, listed) ==
    [cmd |-> cmd, exitCode |-> 1, error |-> error, listed |-> listed,
     stdout |-> << >>, range |-> << >>, oldRange |-> << >>]

\* `  - ${m.symbol.file} (${m.symbol.kind})` for every match
Listed(matches) ==
    [k \in DOMAIN matches |->
        [file |-> matches[k].symbol.file, kind |-> matches[k].symbol.kind]]

\* read-java-type.js
ReadJavaTypeRun ==
    LET matches == findType(symbols, typeName) IN
    IF Len(matches) = 0 THEN Failed("read-java-type", "notfound", << >>)
    ELSE IF Len(matches) > 1 THEN Failed("read-java-type", "multiple", Listed(matches))
    ELSE IF matches[1].symbol.file \notin DOMAIN files
         THEN Failed("read-java-type", "exception", << >>)
    ELSE LET result == readJavaType(files[matches[1].symbol.file], matches[1])
         IN [cmd |-> "read-java-type", exitCode |-> 0, error |-> "none",
             listed |-> << >>, stdout |-> result, range |-> result,
             oldRange |-> << >>]

ReadJavaType ==
    /\ proc.cmd = "none"
    /\ dpc = "idle"
    /\ proc' = ReadJavaTypeRun
    /\ UNCHANGED <<compileVars, symbols, oldSymbols, files, oldFiles, typeName, planFile, planVars, diffVars>>

\* read-java-type-diff.js
ReadJavaTypeDiffRunOldFatal ==
    LET oldMatches == findType(oldSymbols, typeName)
        newMatches == findType(symbols, typeName)
    IN
    IF Len(newMatches) = 0 \/ Len(oldMatches) = 0
    THEN Failed("read-java-type-diff", "notfound", << >>)
    ELSE IF Len(newMatches) > 1
         THEN Failed("read-java-type-diff", "multiple", Listed(newMatches))
    ELSE LET newType == newMatches[1].symbol
             oldType == oldMatches[1].symbol
             javaFilePath == newType.file
         IN
         IF planFile = NoFile THEN Failed("read-java-type-diff", "exception", << >>)
         ELSE IF javaFilePath \notin DOMAIN files \/ javaFilePath \notin DOMAIN oldFiles
              THEN Failed("read-java-type-diff", "show", << >>)
         ELSE LET old == extractTypeContent(oldFiles[javaFilePath], oldType)
                  new == extractTypeContent(files[javaFilePath], newType)
              IN [cmd |-> "read-java-type-diff", exitCode |-> 0, error |-> "none",
                  listed |-> << >>, stdout |-> DiffPrinted(old, new), range |-> new,
                  oldRange |-> old]

ReadJavaTypeDiffRun ==
    LET oldMatches == findType(oldSymbols, typeName)
        newMatches == findType(symbols, typeName)
    IN
    IF Len(newMatches) = 0 THEN Failed("read-java-type-diff", "notfound", << >>)
    ELSE IF Len(newMatches) > 1
         THEN Failed("read-java-type-diff", "multiple", Listed(newMatches))
    ELSE LET newType == newMatches[1].symbol
             oldType == IF Len(oldMatches) > 0 THEN oldMatches[1].symbol ELSE Null
             javaFilePath == newType.file
         IN
         IF planFile = NoFile THEN Failed("read-java-type-diff", "exception", << >>)
         ELSE IF javaFilePath \notin DOMAIN files
              THEN Failed("read-java-type-diff", "show", << >>)
         ELSE LET oldContent == IF javaFilePath \in DOMAIN oldFiles
                                THEN oldFiles[javaFilePath] ELSE << >>
                  newContent == files[javaFilePath]
                  old == IF oldType # Null THEN extractTypeContent(oldContent, oldType)
                         ELSE << >>
                  new == extractTypeContent(newContent, newType)
              IN [cmd |-> "read-java-type-diff", exitCode |-> 0, error |-> "none",
                  listed |-> << >>, stdout |-> DiffPrinted(old, new), range |-> new,
                  oldRange |-> old]

ReadJavaTypeDiff ==
    /\ proc.cmd = "none"
    /\ dpc = "idle"
    /\ proc' = ReadJavaTypeDiffRun
    /\ UNCHANGED <<compileVars, symbols, oldSymbols, files, oldFiles, typeName, planFile, planVars, diffVars>>

\* ============================================================================
\* The type differ, one loop iteration per step
\* ============================================================================

DiffIdle ==
    /\ oldTypeContent = << >>
    /\ newTypeContent = << >>
    /\ matched = NoneMatched(<< >>, << >>)
    /\ cursor = [m |-> 0, i |-> 0, j |-> 0]
    /\ out = << >>
    /\ dpc = "idle"

\* if (oldTypeContent.length === 0) { ...; process.exit(0); }
DiffNewType ==
    /\ dpc = "start"
    /\ Len(oldTypeContent) = 0
    /\ out' = << NewNotice >> \o NewTypeOutput(newTypeContent, 1)
    /\ dpc' = "done"
    /\ UNCHANGED <<compileVars, cmdVars, planFile, planVars, oldTypeContent, newTypeContent, matched, cursor>>

\* Content maps and the all-false matched arrays.
DiffBuildMaps ==
    /\ dpc = "start"
    /\ Len(oldTypeContent) # 0
    /\ matched' = NoneMatched(oldTypeContent, newTypeContent)
    /\ dpc' = IF Len(newTypeContent) = 0 THEN "walk" ELSE "match"
    /\ UNCHANGED <<compileVars, cmdVars, planFile, planVars, oldTypeContent, newTypeContent, cursor, out>>

DiffMatchStep ==
    /\ dpc = "match"
    /\ cursor.m < Len(newTypeContent)
    /\ matched' = MatchIter(oldTypeContent, newTypeContent, matched, cursor.m)
    /\ cursor' = [cursor EXCEPT !.m = cursor.m + 1]
    /\ dpc' = IF cursor.m + 1 < Len(newTypeContent) THEN "match" ELSE "walk"
    /\ UNCHANGED <<compileVars, cmdVars, planFile, planVars, oldTypeContent, newTypeContent, out>>

DiffWalkStep ==
    /\ dpc = "walk"
    /\ cursor.i < Len(oldTypeContent) \/ cursor.j < Len(newTypeContent)
    /\ LET w == WalkIter(oldTypeContent, newTypeContent, matched, cursor.i, cursor.j)
       IN /\ cursor' = [cursor EXCEPT !.i = w.i, !.j = w.j]
          /\ out' = out \o w.emit
          /\ dpc' = IF w.i < Len(oldTypeContent) \/ w.j < Len(newTypeContent)
                    THEN "walk" ELSE "done"
    /\ UNCHANGED <<compileVars, cmdVars, planFile, planVars, oldTypeContent, newTypeContent, matched>>

\* ============================================================================
\* generate-porting-plan.js
\* ============================================================================

Root == "/rt"

\* path.join(spineRuntimesDir, relativePath)
JoinPath(dir, rel) == dir \o "/" \o rel

\* Java sources the change list can name, in the byte order git lists them in.
ChangedPaths ==
    << "Animation.java", "BlendMode.java", "Bone.java", "Slot.java",
       "Updatable.java", "notes.txt", "package-info.java" >>

\* relativePath.endsWith('.java')
EndsWithJava(rel) == rel # "notes.txt"

\* The strings the generator compares, in the order String.localeCompare
\* puts them in (letters compare case-insensitively first; "/" sorts before
\* letters).
Collation ==
    << "/rt/Animation.java", "/rt/BlendMode.java", "/rt/Bone.java", "/rt/notes.txt",
       "/rt/package-info.java", "/rt/Slot.java", "/rt/Updatable.java",
       "Animation", "BlendMode", "Bone", "MixBlend", "Property", "Slot", "Timeline",
       "Updatable" >>

localeCompare(a, b) ==
    LET pos(x) == CHOOSE k \in DOMAIN Collation : Collation[k] = x
    IN pos(a) - pos(b)

\* typeOrder = { 'enum': 0, 'interface': 1, 'class': 2 }
typeOrder(kind) == CASE kind = "enum" -> 0 [] kind = "interface" -> 1 [] kind = "class" -> 2

\* typeName.substring(0, typeName.indexOf('<')) for the generic names in use.
StripGenerics(name) == IF name = "Slot<T>" THEN "Slot" ELSE name

\* An extraction that takes the symbol and its direct type children only.
extractInnerTypesOneLevel(symbol, isInner) ==
    LET typeInfo(sym, inner) ==
            [name |-> StripGenerics(sym.name), kind |-> sym.kind,
             startLine |-> sym.range.start, endLine |-> sym.range.end,
             isInner |-> inner, portingState |-> "pending"]
        kids[k \in 0..Len(symbol.children)] ==
            IF k = 0 THEN << >>
            ELSE IF symbol.children[k].kind \in TypeKinds
                 THEN Append(kids[k - 1], typeInfo(symbol.children[k], TRUE))
                 ELSE kids[k - 1]
    IN (IF symbol.kind \in TypeKinds THEN << typeInfo(symbol, isInner) >> ELSE << >>)
       \o kids[Len(symbol.children)]

\* extractInnerTypes: the symbol itself when it is a type, then its type
\* children, recursively, as inner types.
RECURSIVE extractInnerTypes(_, _)
extractInnerTypes(symbol, isInner) ==
    LET own == IF symbol.kind \in TypeKinds
               THEN << [name |-> StripGenerics(symbol.name), kind |-> symbol.kind,
                        startLine |-> symbol.range.start, endLine |-> symbol.range.end,
                        isInner |-> isInner, portingState |-> "pending"] >>
               ELSE << >>
        kids[k \in 0..Len(symbol.children)] ==
            IF k = 0 THEN << >>
            ELSE IF symbol.children[k].kind \in TypeKinds
                 THEN kids[k - 1] \o extractInnerTypes(symbol.children[k], TRUE)
                 ELSE kids[k - 1]
    IN own \o kids[Len(symbol.children)]

extractTypesFromFile(lspData, filePath) ==
    LET acc[k \in 0..Len(lspData.symbols)] ==
            IF k = 0 THEN << >>
            ELSE IF lspData.symbols[k].file = filePath
                       /\ lspData.symbols[k].kind \in TypeKinds
                 THEN acc[k - 1] \o extractInnerTypes(lspData.symbols[k], FALSE)
                 ELSE acc[k - 1]
    IN acc[Len(lspData.symbols)]

\* Set.add on an insertion-ordered set.
AddOnce(q, x) == IF x \in Range(q) THEN q ELSE Append(q, x)

HasDefinition(symbol) == "definition" \in DOMAIN symbol

\* searchSymbol matching on the name alone, whatever the symbol's kind.
RECURSIVE searchSymbolAnyKind(_, _, _)
searchSymbolAnyKind(symbol, name, candidateFiles) ==
    LET kidDefs[k \in 0..Len(symbol.children)] ==
            IF k = 0
            THEN IF HasDefinition(symbol)
                 THEN AddOnce(AddOnce(candidateFiles, symbol.file), symbol.definition.file)
                 ELSE AddOnce(candidateFiles, symbol.file)
            ELSE IF HasDefinition(symbol.children[k])
                 THEN AddOnce(kidDefs[k - 1], symbol.children[k].definition.file)
                 ELSE kidDefs[k - 1]
        here == IF symbol.name = name
                THEN kidDefs[Len(symbol.children)]
                ELSE candidateFiles
        kids[k \in 0..Len(symbol.children)] ==
            IF k = 0 THEN here
            ELSE searchSymbolAnyKind(symbol.children[k], name, kids[k - 1])
    IN kids[Len(symbol.children)]

RECURSIVE searchSymbol(_, _, _)
searchSymbol(symbol, name, candidateFiles) ==
    LET kidDefs[k \in 0..Len(symbol.children)] ==
            IF k = 0
            THEN IF HasDefinition(symbol)
                 THEN AddOnce(AddOnce(candidateFiles, symbol.file), symbol.definition.file)
                 ELSE AddOnce(candidateFiles, symbol.file)
            ELSE IF HasDefinition(symbol.children[k])
                 THEN AddOnce(kidDefs[k - 1], symbol.children[k].definition.file)
                 ELSE kidDefs[k - 1]
        here == IF symbol.name = name /\ symbol.kind \in TypeKinds
                THEN kidDefs[Len(symbol.children)]
                ELSE candidateFiles
        kids[k \in 0..Len(symbol.children)] ==
            IF k = 0 THEN here
            ELSE searchSymbol(symbol.children[k], name, kids[k - 1])
    IN kids[Len(symbol.children)]

findCandidateFiles(targetLsp, name) ==
    IF targetLsp = NoFile THEN << >>
    ELSE LET acc[k \in 0..Len(targetLsp.symbols)] ==
                 IF k = 0 THEN << >>
                 ELSE searchSymbol(targetLsp.symbols[k], name, acc[k - 1])
         IN acc[Len(targetLsp.symbols)]

\* The comparator of types.sort with the names alone.
CompareTypesByNameOnly(a, b) == localeCompare(a.name, b.name)

\* types.sort comparator: kind order, then name.
CompareTypes(a, b) ==
    LET orderDiff == typeOrder(a.kind) - typeOrder(b.kind)
    IN IF orderDiff # 0 THEN orderDiff ELSE localeCompare(a.name, b.name)

RECURSIVE InsertType(_, _)
InsertType(sorted, t) ==
    IF sorted = << >> THEN << t >>
    ELSE IF CompareTypes(sorted[Len(sorted)], t) <= 0
         THEN Append(sorted, t)
         ELSE Append(InsertType(SubSeq(sorted, 1, Len(sorted) - 1), t),
                     sorted[Len(sorted)])

SortTypes(types) ==
    LET acc[k \in 0..Len(types)] ==
            IF k = 0 THEN << >> ELSE InsertType(acc[k - 1], types[k])
    IN acc[Len(types)]

\* a.types?.length || 0
TypeCount(entry) == IF "types" \in DOMAIN entry THEN Len(entry.types) ELSE 0

\* The comparator without its final comparison of the paths.
ComparePortingEntriesNoPath(a, b) ==
    LET aTypes == TypeCount(a)
        bTypes == TypeCount(b)
    IN IF aTypes # bTypes THEN aTypes - bTypes
       ELSE IF aTypes = 1 /\ bTypes = 1
            THEN typeOrder(a.types[1].kind) - typeOrder(b.types[1].kind)
       ELSE 0

\* portingOrder.sort comparator: type count, kind of single-type files, path.
ComparePortingEntries(a, b) ==
    LET aTypes == TypeCount(a)
        bTypes == TypeCount(b)
    IN IF aTypes # bTypes THEN aTypes - bTypes
       ELSE IF aTypes = 1 /\ bTypes = 1
                 /\ typeOrder(a.types[1].kind) - typeOrder(b.types[1].kind) # 0
            THEN typeOrder(a.types[1].kind) - typeOrder(b.types[1].kind)
       ELSE localeCompare(a.javaSourcePath, b.javaSourcePath)

\* An insertion that leaves the entries in the order of the change list.
InsertPortingEntryAtEnd(sorted, e) == Append(sorted, e)

RECURSIVE InsertPortingEntry(_, _)
InsertPortingEntry(sorted, e) ==
    IF sorted = << >> THEN << e >>
    ELSE IF ComparePortingEntries(sorted[Len(sorted)], e) <= 0
         THEN Append(sorted, e)
         ELSE Append(InsertPortingEntry(SubSeq(sorted, 1, Len(sorted) - 1), e),
                     sorted[Len(sorted)])

SortPortingOrder(entries) ==
    LET acc[k \in 0..Len(entries)] ==
            IF k = 0 THEN << >> ELSE InsertPortingEntry(acc[k - 1], entries[k])
    IN acc[Len(entries)]

\* An entry whose types count as done once the target tree has candidates.
PortingEntryDoneWhenFound(absolutePath, spineLibgdxLsp, targetLsp) ==
    LET types == IF spineLibgdxLsp = NoFile THEN << >>
                 ELSE SortTypes(extractTypesFromFile(spineLibgdxLsp, absolutePath))
    IN IF Len(types) > 0
       THEN [javaSourcePath |-> absolutePath,
             types |-> [k \in DOMAIN types |->
                          [name |-> types[k].name, kind |-> types[k].kind,
                           startLine |-> types[k].startLine, endLine |-> types[k].endLine,
                           isInner |-> types[k].isInner,
                           candidateFiles |-> findCandidateFiles(targetLsp, types[k].name),
                           portingState |->
                               IF findCandidateFiles(targetLsp, types[k].name) # << >>
                               THEN "done" ELSE "pending"]]]
       ELSE [javaSourcePath |-> absolutePath]

\* The entry of one added or modified Java file.
PortingEntry(absolutePath, spineLibgdxLsp, targetLsp) ==
    LET types == IF spineLibgdxLsp = NoFile THEN << >>
                 ELSE SortTypes(extractTypesFromFile(spineLibgdxLsp, absolutePath))
    IN IF Len(types) > 0
       THEN [javaSourcePath |-> absolutePath,
             types |-> [k \in DOMAIN types |->
                          [name |-> types[k].name, kind |-> types[k].kind,
                           startLine |-> types[k].startLine, endLine |-> types[k].endLine,
                           isInner |-> types[k].isInner,
                           candidateFiles |-> findCandidateFiles(targetLsp, types[k].name),
                           portingState |-> "pending"]]]
       ELSE [javaSourcePath |-> absolutePath]

\* The loop with deleted files recorded only when they are Java files.
ProcessChangesDeletedJavaOnly(changes, spineLibgdxLsp, targetLsp) ==
    LET acc[k \in 0..Len(changes)] ==
            IF k = 0 THEN [deletedFiles |-> << >>, portingOrder |-> << >>]
            ELSE LET absolutePath == JoinPath(Root, changes[k].path)
                 IN IF changes[k].status = "D" /\ EndsWithJava(changes[k].path)
                    THEN [acc[k - 1] EXCEPT !.deletedFiles =
                             Append(@, [filePath |-> absolutePath, status |-> "pending"])]
                    ELSE IF changes[k].status \in {"A", "M"} /\ EndsWithJava(changes[k].path)
                    THEN [acc[k - 1] EXCEPT !.portingOrder =
                             Append(@, PortingEntry(absolutePath, spineLibgdxLsp, targetLsp))]
                    ELSE acc[k - 1]
    IN acc[Len(changes)]

\* The loop over the change list: deleted files and porting entries, unsorted.
ProcessChanges(changes, spineLibgdxLsp, targetLsp) ==
    LET acc[k \in 0..Len(changes)] ==
            IF k = 0 THEN [deletedFiles |-> << >>, portingOrder |-> << >>]
            ELSE LET absolutePath == JoinPath(Root, changes[k].path)
                 IN IF changes[k].status = "D"
                    THEN [acc[k - 1] EXCEPT !.deletedFiles =
                             Append(@, [filePath |-> absolutePath, status |-> "pending"])]
                    ELSE IF changes[k].status \in {"A", "M"} /\ EndsWithJava(changes[k].path)
                    THEN [acc[k - 1] EXCEPT !.portingOrder =
                             Append(@, PortingEntry(absolutePath, spineLibgdxLsp, targetLsp))]
                    ELSE acc[k - 1]
    IN acc[Len(changes)]

PlanMetadata ==
    [prevBranch |-> "4.2", currentBranch |-> "4.3", spineRuntimesDir |-> Root,
     targetRuntime |-> "spine-cpp", targetRuntimeLanguage |-> "cpp"]

\* A plan that lists no file to port when the reference table is missing.
BuildPlanNeedsReference(changes, spineLibgdxLsp, targetLsp) ==
    LET processed == ProcessChanges(changes, spineLibgdxLsp, targetLsp)
    IN [metadata |-> PlanMetadata,
        deletedFiles |-> processed.deletedFiles,
        portingOrder |-> IF spineLibgdxLsp = NoFile THEN << >>
                         ELSE SortPortingOrder(processed.portingOrder)]

\* The document written to porting-plan.json (without the generation time).
BuildPlan(changes, spineLibgdxLsp, targetLsp) ==
    LET processed == ProcessChanges(changes, spineLibgdxLsp, targetLsp)
    IN [metadata |-> PlanMetadata,
        deletedFiles |-> processed.deletedFiles,
        portingOrder |-> SortPortingOrder(processed.portingOrder)]

\* What a run of the generator leaves behind.
PlanRun(exitCode, error, wrotePlan, overwroteDone) ==
    [cmd |-> "generate-porting-plan", exitCode |-> exitCode, error |-> error,
     wrotePlan |-> wrotePlan, overwroteDone |-> overwroteDone]

\* All portingState values of a plan, in file order.
PortingStates(plan) ==
    LET acc[k \in 0..Len(plan.portingOrder)] ==
            IF k = 0 THEN << >>
            ELSE IF "types" \in DOMAIN plan.portingOrder[k]
                 THEN acc[k - 1] \o [t \in DOMAIN plan.portingOrder[k].types |->
                                        plan.portingOrder[k].types[t].portingState]
                 ELSE acc[k - 1]
    IN acc[Len(plan.portingOrder)]

HasDone(plan) ==
    /\ plan # NoFile
    /\ \/ "done" \in Range(PortingStates(plan))
       \/ \E k \in DOMAIN plan.deletedFiles : plan.deletedFiles[k].status = "done"

\* The symbol table documents ({symbols: [...]}) the indexer writes for the
\* two trees.
RefTable ==
    [symbols |->
        << Sym("MixBlend", "enum", "/rt/Animation.java", 3, 5, << >>),
           Sym("Animation", "class", "/rt/Animation.java", 7, 30,
               << Sym("apply", "method", "/rt/Animation.java", 8, 9, << >>),
                  Sym("Timeline", "interface", "/rt/Animation.java", 10, 20,
                      << Sym("Property", "enum", "/rt/Animation.java", 12, 14, << >>) >>) >>),
           Sym("BlendMode", "enum", "/rt/BlendMode.java", 1, 4, << >>),
           Sym("Updatable", "interface", "/rt/Updatable.java", 1, 3, << >>),
           Sym("Bone", "class", "/rt/Bone.java", 2, 9, << >>),
           Sym("Slot<T>", "class", "/rt/Slot.java", 1, 8, << >>) >>]

WithDefinition(symbol, file) == symbol @@ [definition |-> [file |-> file]]

TargetTable ==
    [symbols |->
        << Sym("spine", "namespace", "/rt/cpp/Animation.h", 1, 90,
               << WithDefinition(
                      Sym("Animation", "class", "/rt/cpp/Animation.h", 5, 80,
                          << WithDefinition(
                                 Sym("apply", "method", "/rt/cpp/Animation.h", 6, 6, << >>),
                                 "/rt/cpp/Animation.cpp") >>),
                      "/rt/cpp/Animation.cpp"),
                  Sym("MixBlend", "enum", "/rt/cpp/Animation.h", 82, 88, << >>) >>),
           Sym("Bone", "class", "/rt/cpp/Bone.h", 1, 50,
               << WithDefinition(
                      Sym("update", "method", "/rt/cpp/Bone.h", 9, 9, << >>),
                      "/rt/cpp/Bone.cpp") >>),
           Sym("Slot", "method", "/rt/cpp/Skeleton.h", 7, 7, << >>) >>]

\* Symbol tables left in the working directory by a run on an earlier
\* revision, in which Animation.java declared only Animation and MixBlend.
StaleRefTable ==
    [symbols |->
        << Sym("Animation", "class", "/rt/Animation.java", 1, 30,
               << Sym("apply", "method", "/rt/Animation.java", 8, 9, << >>) >>),
           Sym("MixBlend", "enum", "/rt/Animation.java", 32, 36, << >>) >>]

StaleTargetTable ==
    [symbols |->
        << Sym("Animation", "class", "/rt/cpp/OldAnimation.h", 1, 40, << >>) >>]

\* How one call of generateLspJson can end, the runtime path being there: the
\* indexer wrote the table, or it exited non-zero, which generateLspJson
\* catches and reports.
IndexerOutcomes == {"ok", "failed"}

\* The table file after generateLspJson: written anew, or left as it was.
TableAfter(outcome, onDisk, fresh) == IF outcome = "ok" THEN fresh ELSE onDisk

\* The table files a call of generateLspJson can leave behind.
TablesAfter(onDisk, fresh) == {TableAfter(o, onDisk, fresh) : o \in IndexerOutcomes}

supportedRuntimes == {"spine-cpp", "spine-ts", "spine-haxe"}

\* A run that indexes both trees before it validates its arguments.
GenerateRejectedAfterIndexing ==
    /\ symbols' = RefTable
    /\ targetSymbols' = TargetTable
    /\ proc' = PlanRun(1, "validation", FALSE, FALSE)
    /\ UNCHANGED <<compileVars, oldSymbols, files, oldFiles, typeName, planFile, changeList, diffVars>>

\* Fewer than four arguments, an unsupported target runtime, or a directory
\* that is not a git repository: the script prints its diagnostic and exits
\* before main() is called.
GenerateRejected ==
    /\ \E argc \in {3, 4}, targetRuntime \in {"spine-cpp", "spine-c"},
          isRepository \in BOOLEAN :
          /\ argc < 4 \/ targetRuntime \notin supportedRuntimes \/ ~isRepository
          /\ proc' = PlanRun(1, "validation", FALSE, FALSE)
    /\ UNCHANGED <<compileVars, symbols, oldSymbols, files, oldFiles, typeName, planFile, planVars,
                   diffVars>>

\* `lsp-cli --llm` throws before any indexing: main() catches, reports, exits 1.
GenerateAbortedEarly ==
    /\ proc' = PlanRun(1, "exception", FALSE, FALSE)
    /\ UNCHANGED <<compileVars, symbols, oldSymbols, files, oldFiles, typeName, planFile, planVars,
                   diffVars>>

\* A run that writes the plan before `git diff` throws.
GenerateAbortedAfterWrite ==
    /\ \E ref \in TablesAfter(symbols, RefTable),
          target \in TablesAfter(targetSymbols, TargetTable) :
          /\ symbols' = ref
          /\ targetSymbols' = target
          /\ planFile' = BuildPlan(<< >>, ref, target)
          /\ proc' = PlanRun(1, "exception", TRUE, HasDone(planFile))
    /\ UNCHANGED <<compileVars, oldSymbols, files, oldFiles, typeName, changeList, diffVars>>

\* `git diff` throws after the tables were indexed and loaded: main() catches,
\* reports, exits 1.
GenerateAborted ==
    /\ \E ref \in TablesAfter(symbols, RefTable),
          target \in TablesAfter(targetSymbols, TargetTable) :
          /\ symbols' = ref
          /\ targetSymbols' = target
          /\ proc' = PlanRun(1, "exception", FALSE, FALSE)
    /\ UNCHANGED <<compileVars, oldSymbols, files, oldFiles, typeName, planFile, changeList,
                   diffVars>>

\* main() runs to the end: both trees are indexed, the tables on disk are
\* loaded, and porting-plan.json is written.
GeneratePlan ==
    /\ \E ref \in TablesAfter(symbols, RefTable),
          target \in TablesAfter(targetSymbols, TargetTable) :
          /\ symbols' = ref
          /\ targetSymbols' = target
          /\ planFile' = BuildPlan(changeList, ref, target)
          /\ proc' = PlanRun(0, "none", TRUE, HasDone(planFile))
    /\ UNCHANGED <<compileVars, oldSymbols, files, oldFiles, typeName, changeList, diffVars>>

\* The workflow of port.md marks the next pending type done.
MarkDoneIn(plan, file, name) ==
    [plan EXCEPT !.portingOrder =
        [k \in DOMAIN plan.portingOrder |->
            IF plan.portingOrder[k].javaSourcePath = file /\ "types" \in DOMAIN plan.portingOrder[k]
            THEN [plan.portingOrder[k] EXCEPT !.types =
                     [t \in DOMAIN @ |->
                         IF @[t].name = name THEN [@[t] EXCEPT !.portingState = "done"]
                         ELSE @[t]]]
            ELSE plan.portingOrder[k]]]

MarkTypeDone ==
    /\ planFile # NoFile
    /\ LET states == PortingStates(planFile)
       IN Cardinality({k \in DOMAIN states : states[k] = "done"}) < MaxMarks
    /\ \E k \in DOMAIN planFile.portingOrder :
          /\ "types" \in DOMAIN planFile.portingOrder[k]
          /\ \E t \in DOMAIN planFile.portingOrder[k].types :
                /\ planFile.portingOrder[k].types[t].portingState = "pending"
                /\ \A k2 \in 1..k : "types" \in DOMAIN planFile.portingOrder[k2] =>
                       \A t2 \in DOMAIN planFile.portingOrder[k2].types :
                           (k2 < k \/ t2 < t) =>
                               planFile.portingOrder[k2].types[t2].portingState = "done"
                /\ planFile' = MarkDoneIn(planFile, planFile.portingOrder[k].javaSourcePath,
                                          planFile.portingOrder[k].types[t].name)
    /\ proc' = [cmd |-> "workflow", exitCode |-> 0]
    /\ UNCHANGED <<compileVars, symbols, oldSymbols, files, oldFiles, typeName, planVars, diffVars>>

\* ============================================================================
\* Inputs
\* ============================================================================

RECURSIVE SeqsUpTo(_, _)
SeqsUpTo(S, n) ==
    IF n = 0 THEN {<< >>}
    ELSE LET shorter == SeqsUpTo(S, n - 1)
         IN shorter \cup {Append(q, x) : q \in {r \in shorter : Len(r) = n - 1}, x \in S}

\* A real line of a file whose text is the summary note of one excluded class.
DiffTexts == {"a;", "b;", DiffSummaryText(1)}

\* What extractTypeContent can return: real lines, then at most one summary.
DiffRangeOf(body, sentinel) ==
    [k \in DOMAIN body |-> [lineNum |-> k, content |-> body[k]]] \o sentinel

DiffSentinels ==
    {<< >>, << [lineNum |-> -1, content |-> DiffSummaryText(1)] >>}

DiffRanges ==
    {DiffRangeOf(body, s) : body \in SeqsUpTo(DiffTexts, MaxDiffLen), s \in DiffSentinels}

\* No compilation has been asked for.
CompileIdle == compilerOutput = << >>

PlanIdle ==
    /\ targetSymbols = NoFile
    /\ changeList = << >>

CmdIdle ==
    /\ symbols = << >>
    /\ oldSymbols = << >>
    /\ files = << >>
    /\ oldFiles = << >>
    /\ typeName = ""
    /\ proc = ProcIdle

FileA == "A.java"
FileB == "B.java"

Intervals(lo, hi) == {<<a, b>> : a \in lo..hi, b \in lo..hi} \cap {iv \in Int \X Int : iv[1] <= iv[2]}

Ty(name, kind, iv, children) == Sym(name, kind, FileA, iv[1], iv[2], children)

\* Symbol forests of one file of n lines: a top-level class that ends on the
\* last line or the line before it, alone, or with a nested class, a nested
\* class holding an enum, two nested types (children in either order), or a
\* method holding a local class.  A nested declaration starts below the line
\* its parent starts on.
ExtractForests(n) ==
    LET tops == {t \in Intervals(1, n) : t[2] >= n - 1}
        In(t) == Intervals(t[1] + 1, t[2])
    IN  {<< Ty("Outer", "class", t, << >>) >> : t \in tops}
        \cup UNION {{<< Ty("Outer", "class", t, << Ty("Inner", "class", c, << >>) >>) >>
                        : c \in In(t)} : t \in tops}
        \cup UNION {UNION {{<< Ty("Outer", "class", t,
                                << Ty("Inner", "class", c,
                                      << Ty("Deep", "enum", d, << >>) >>) >>) >>
                        : d \in In(c)} : c \in In(t)} : t \in tops}
        \cup UNION {UNION {{<< Ty("Outer", "class", t,
                                << Ty("Inner", "interface", c, << >>),
                                   Ty("Inner2", "enum", d, << >>) >>) >>
                        : d \in {x \in In(t) : x[1] > c[2] \/ x[2] < c[1]}}
                        : c \in In(t)} : t \in tops}
        \cup UNION {UNION {{<< Ty("Outer", "class", t,
                                << Ty("run", "method", c,
                                      << Ty("Local", "class", d, << >>) >>) >>) >>
                        : d \in In(c)} : c \in In(t)} : t \in tops}

RECURSIVE AllSymbols(_)
AllSymbols(syms) ==
    UNION {{syms[k]} \cup AllSymbols(syms[k].children) : k \in DOMAIN syms}

\* The text a line may have: a declaration starts on a code line and ends on
\* a code line or a closing brace; every other line is free.
AllowedTexts(forest, k) ==
    LET all == AllSymbols(forest) IN
    IF \E y \in all : y.range.start = k THEN {Code}
    ELSE IF \E y \in all : y.range.end = k THEN {Code, Brace}
    ELSE LineTexts

RECURSIVE LinesFor(_, _, _)
LinesFor(forest, k, n) ==
    IF k > n THEN {<< >>}
    ELSE {<< x >> \o rest : x \in AllowedTexts(forest, k), rest \in LinesFor(forest, k + 1, n)}

PlanStub == [metadata |-> "present"]

\* One file, every forest over it; the old revision is identical.
InitExtract ==
    \E n \in 1..MaxLines : \E forest \in ExtractForests(n) :
    \E ls \in LinesFor(forest, 1, n) :
        /\ symbols = forest
        /\ oldSymbols = forest
        /\ files = [f \in {FileA} |-> ls]
        /\ oldFiles = [f \in {FileA} |-> ls]
        /\ typeName \in {"Outer", "Inner"} \cap {y.name : y \in AllSymbols(forest)}
        /\ planFile = PlanStub
        /\ PlanIdle
        /\ proc = ProcIdle
        /\ DiffIdle
        /\ CompileIdle

\* Two fixed files and the symbol tables an indexer can report for them: the
\* requested name may be missing, unique, or carried by several symbols.
FixA == << DocOpen, Code, Code, Brace, Code, Brace >>
FixAOld == << Code, Code, Brace, Code, Brace >>
FixB == << Code, Brace >>

NewY == Sym("Y", "enum", FileA, 3, 4, << >>)
NewCtor == Sym("X", "constructor", FileA, 5, 5, << >>)
NewX(children) == Sym("X", "class", FileA, 2, 6, children)
OldY == Sym("Y", "enum", FileA, 2, 3, << >>)
OldCtor == Sym("X", "constructor", FileA, 4, 4, << >>)
OldX(children) == Sym("X", "class", FileA, 1, 5, children)
OtherX == Sym("X", "interface", FileB, 1, 2, << >>)
PackageX(children) == Sym("X", "package", "", 1, 1, children)

NewTables ==
    << << NewX(<< NewY >>) >>,
       << NewX(<< NewY, NewCtor >>) >>,
       << NewX(<< NewY >>), OtherX >>,
       << OtherX >>,
       << PackageX(<< NewX(<< NewY >>) >>) >>,
       << >> >>

OldTables ==
    << << OldX(<< OldY >>), OtherX >>,
       << OtherX, OldX(<< OldY >>) >>,
       << OldX(<< OldY >>) >>,
       << OldX(<< OldY, OldCtor >>) >>,
       << OtherX >>,
       << >> >>

NewTrees == << (FileA :> FixA) @@ (FileB :> FixB), (FileB :> FixB) >>

OldTrees ==
    << (FileA :> FixAOld) @@ (FileB :> FixB),
       (FileA :> FixA) @@ (FileB :> FixB),
       (FileB :> FixB) >>

RequestedNames == << "X", "Y", "Z" >>

PlanFiles == << PlanStub, NoFile >>

InitLookup ==
    \E a \in DOMAIN NewTables, b \in DOMAIN OldTables, c \in DOMAIN NewTrees,
       d \in DOMAIN OldTrees, e \in DOMAIN RequestedNames, f \in DOMAIN PlanFiles :
        /\ symbols = NewTables[a]
        /\ oldSymbols = OldTables[b]
        /\ files = NewTrees[c]
        /\ oldFiles = OldTrees[d]
        /\ typeName = RequestedNames[e]
        /\ planFile = PlanFiles[f]
        /\ PlanIdle
        /\ proc = ProcIdle
        /\ DiffIdle
        /\ CompileIdle

Init == InitExtract \/ InitLookup

Next == ReadJavaType \/ ReadJavaTypeDiff

Spec == Init /\ [][Next]_vars

InitDiff ==
    /\ CmdIdle
    /\ planFile = NoFile
    /\ PlanIdle
    /\ oldTypeContent \in DiffRanges
    /\ newTypeContent \in DiffRanges
    /\ matched = NoneMatched(<< >>, << >>)
    /\ cursor = [m |-> 0, i |-> 0, j |-> 0]
    /\ out = << >>
    /\ dpc = "start"
    /\ CompileIdle

\* Change lists as git prints them: each path at most once, in byte order.
RECURSIVE ChangeListsFrom(_, _)
ChangeListsFrom(k, room) ==
    IF k > Len(ChangedPaths) \/ room = 0 THEN {<< >>}
    ELSE ChangeListsFrom(k + 1, room)
         \cup {<< [status |-> st, path |-> ChangedPaths[k]] >> \o rest :
                  st \in {"A", "M", "D"}, rest \in ChangeListsFrom(k + 1, room - 1)}

\* The working directory is fresh, or holds the tables of an earlier run.
InitPlan ==
    /\ typeName = ""
    /\ files = << >>
    /\ oldFiles = << >>
    /\ oldSymbols = << >>
    /\ proc = ProcIdle
    /\ DiffIdle
    /\ CompileIdle
    /\ planFile = NoFile
    /\ \/ /\ symbols = StaleRefTable
          /\ targetSymbols = StaleTargetTable
          /\ changeList \in ChangeListsFrom(1, MaxStaleChanges)
       \/ /\ symbols = NoFile
          /\ targetSymbols = NoFile
          /\ changeList \in ChangeListsFrom(1, MaxChanges)

NextPlan ==
    \/ GenerateRejected
    \/ GenerateAbortedEarly
    \/ GenerateAborted
    \/ GeneratePlan
    \/ MarkTypeDone

SpecPlan == InitPlan /\ [][NextPlan]_vars

NextDiff == DiffNewType \/ DiffBuildMaps \/ DiffMatchStep \/ DiffWalkStep

SpecDiff == InitDiff /\ [][NextDiff]_vars

\* The script is one sequential program: a loop that can take a step takes it.
SpecDiffFair == SpecDiff /\ WF_vars(NextDiff)

\* ============================================================================
\* compile-cpp.js
\* ============================================================================

\* The lines clang++ prints, as far as the script tells them apart: the line
\* of an error, the line of a note, an indented source or caret line, the
\* empty string (output.split('\n') yields one after the final newline) and an
\* unindented line without marker ("1 error generated.", a warning, "In file
\* included from ...").
ErrorLine == "a.cpp:3:5: error: unknown type name 'Foo'"
NoteLine == "a.h:7:1: note: declared here"
ContextLine == "    3 |     Foo x;"
BlankLine == ""
PlainLine == "1 error generated."

CompilerLines == {ErrorLine, NoteLine, ContextLine, BlankLine, PlainLine}

ErrorMarker == ": error:"
NoteMarker == ": note:"

\* line.includes(marker)
includes(line, marker) ==
    \/ line = ErrorLine /\ marker = ErrorMarker
    \/ line = NoteLine /\ marker = NoteMarker

\* line.trim()
trim(line) == IF line = ContextLine THEN "3 |     Foo x;" ELSE line

\* line.startsWith(' ')
startsWithSpace(line) == line = ContextLine

ScanStart == [errorStart |-> -1, errorEnd |-> -1, inError |-> FALSE, noteCount |-> 0,
              stopped |-> FALSE]

\* Variant of the loop body without the stop at an unindented line (lines
\* 79-85 left out).
ScanLineNoPlainStop(st, i, line) ==
    LET s1 == IF includes(line, ErrorMarker) /\ st.errorStart = -1
              THEN [st EXCEPT !.errorStart = i, !.inError = TRUE, !.noteCount = 0]
              ELSE st
        s2 == IF s1.inError /\ includes(line, NoteMarker)
              THEN [s1 EXCEPT !.noteCount = s1.noteCount + 1, !.errorEnd = i]
              ELSE s1
    IN IF s2.inError /\ trim(line) = "" /\ s2.noteCount > 0
       THEN [s2 EXCEPT !.errorEnd = i, !.stopped = TRUE]
       ELSE IF s2.inError /\ s2.errorStart # i /\ includes(line, ErrorMarker)
       THEN [s2 EXCEPT !.errorEnd = i - 1, !.stopped = TRUE]
       ELSE s2

\* The body of the for loop of lines 51-86 for the line at 0-based index i;
\* stopped records a break.
ScanLine(st, i, line) ==
    LET s1 == IF includes(line, ErrorMarker) /\ st.errorStart = -1
              THEN [st EXCEPT !.errorStart = i, !.inError = TRUE, !.noteCount = 0]
              ELSE st
        s2 == IF s1.inError /\ includes(line, NoteMarker)
              THEN [s1 EXCEPT !.noteCount = s1.noteCount + 1, !.errorEnd = i]
              ELSE s1
    IN IF s2.inError /\ trim(line) = "" /\ s2.noteCount > 0
       THEN [s2 EXCEPT !.errorEnd = i, !.stopped = TRUE]
       ELSE IF s2.inError /\ s2.errorStart # i /\ includes(line, ErrorMarker)
       THEN [s2 EXCEPT !.errorEnd = i - 1, !.stopped = TRUE]
       ELSE IF /\ s2.inError /\ s2.errorStart # -1 /\ i > s2.errorStart
               /\ ~startsWithSpace(line) /\ ~includes(line, NoteMarker)
               /\ ~includes(line, ErrorMarker)
       THEN [s2 EXCEPT !.errorEnd = i - 1, !.stopped = TRUE]
       ELSE s2

RECURSIVE ScanFrom(_, _, _)
ScanFrom(lines, st, i) ==
    IF i >= Len(lines) \/ st.stopped THEN st
    ELSE ScanFrom(lines, ScanLine(st, i, lines[i + 1]), i + 1)

FallbackNotice == "Compilation failed:"

\* lines.slice(0, 20).join('\n'), printed by one console.log
FirstTwenty(lines) == SubSeq(lines, 1, IF Len(lines) < 20 THEN Len(lines) ELSE 20)

\* What the catch block of lines 41-103 prints for the captured output.
FirstErrorPrinted(lines) ==
    LET st == ScanFrom(lines, ScanStart, 0)
        errorEnd == IF st.errorStart # -1 /\ st.errorEnd = -1 THEN st.errorStart
                    ELSE st.errorEnd
        last == IF errorEnd < Len(lines) - 1 THEN errorEnd ELSE Len(lines) - 1
    IN IF st.errorStart # -1 THEN SubSeq(lines, st.errorStart + 1, last + 1)
       ELSE << FallbackNotice >> \o FirstTwenty(lines)

UsageLines == << "Usage: compile_single.js <absolute_file_path>", "Example: ..." >>

SuccessNotice == "Compilation successful!"

CompileRun(exitCode, error, stdout) ==
    [cmd |-> "compile-cpp", exitCode |-> exitCode, error |-> error, listed |-> << >>,
     stdout |-> stdout, range |-> << >>, oldRange |-> << >>]

\* Lines 8-32: a missing argument, a missing source file or an unreadable plan
\* end the command before the compiler is started.
CompileRejected ==
    /\ proc.cmd = "none"
    /\ \E argc \in {2, 3}, sourceFileExists \in BOOLEAN :
          /\ argc < 3 \/ ~sourceFileExists \/ planFile = NoFile
          /\ proc' = IF argc < 3 THEN CompileRun(1, "usage", UsageLines)
                     ELSE IF ~sourceFileExists THEN CompileRun(1, "notfound", << >>)
                     ELSE CompileRun(1, "plan", << >>)
    /\ UNCHANGED <<symbols, oldSymbols, files, oldFiles, typeName, planFile, planVars,
                   diffVars, compileVars>>

\* execSync returned: clang++ exited with status 0, which it does not do after
\* printing an error.
CompileSucceeded ==
    /\ proc.cmd = "none"
    /\ planFile # NoFile
    /\ \A k \in DOMAIN compilerOutput : ~includes(compilerOutput[k], ErrorMarker)
    /\ proc' = CompileRun(0, "none", << SuccessNotice >>)
    /\ UNCHANGED <<symbols, oldSymbols, files, oldFiles, typeName, planFile, planVars,
                   diffVars, compileVars>>

\* execSync threw: the catch block prints and the script ends normally.
CompileFailed ==
    /\ proc.cmd = "none"
    /\ planFile # NoFile
    /\ proc' = CompileRun(0, "compile", FirstErrorPrinted(compilerOutput))
    /\ UNCHANGED <<symbols, oldSymbols, files, oldFiles, typeName, planFile, planVars,
                   diffVars, compileVars>>

\* output.split('\n') never yields an empty array.
InitCompile ==
    /\ CmdIdle
    /\ PlanIdle
    /\ DiffIdle
    /\ planFile \in {PlanStub, NoFile}
    /\ compilerOutput \in SeqsUpTo(CompilerLines, MaxOutputLines) \ {<< >>}

NextCompile == CompileRejected \/ CompileSucceeded \/ CompileFailed

SpecCompile == InitCompile /\ [][NextCompile]_vars

\* ============================================================================
\* The tools side by side
\* ============================================================================

\* One working directory per behaviour, used by the tool its inputs are for:
\* a type name for the two read commands, a compiler output for the compile
\* check, a change list for the plan generator and the workflow.
ReadRequested == typeName # ""

CompileRequested == compilerOutput # << >>

InitTools ==
    \/ InitLookup
    \/ InitCompile
    \/ InitPlan /\ Len(changeList) <= MaxStaleChanges

NextTools ==
    \/ ReadRequested /\ Next
    \/ CompileRequested /\ NextCompile
    \/ ~ReadRequested /\ ~CompileRequested /\ NextPlan

SpecTools == InitTools /\ [][NextTools]_vars

\* ============================================================================
\* Properties of the commands (specification Spec)
\* ============================================================================

\* The symbol the command located (defined when the lookup was unique).
Requested == findType(symbols, typeName)[1].symbol

Extracted == proc.cmd # "none" /\ proc.exitCode = 0

RealEntries(r) == SelectSeq(r, LAMBDA en : en.lineNum # -1)

Sentinels(r) == SelectSeq(r, LAMBDA en : en.lineNum = -1)

RealLineNums(r) == {r[k].lineNum : k \in {x \in DOMAIN r : r[x].lineNum # -1}}

\* Strict descendants of a symbol that are types.
RECURSIVE DescendantTypes(_)
DescendantTypes(y) ==
    UNION {(IF y.children[k].kind \in TypeKinds THEN {y.children[k]} ELSE {})
              \cup DescendantTypes(y.children[k]) : k \in DOMAIN y.children}

DirectTypes(y) == {y.children[k] : k \in {x \in DOMAIN y.children : y.children[x].kind \in TypeKinds}}

\* C1: the extracted range of a type (top-level or nested), in both commands,
\* holds no real line whose number lies inside the declared range of a strict
\* descendant type of that type.
C1_NoDescendantLine ==
    Extracted =>
        \A n \in RealLineNums(proc.range) : \A d \in DescendantTypes(Requested) :
            ~(d.range.start <= n /\ n <= d.range.end)

\* The same, for the type-diff command and descendants reached through nested
\* types only (diagnostic: which part of C1 the type-diff command keeps).
C1_DiffNoNestedTypeLine ==
    (Extracted /\ proc.cmd = "read-java-type-diff") =>
        \A n \in RealLineNums(proc.range) : \A d \in DirectTypes(Requested) :
            ~(d.range.start <= n /\ n <= d.range.end)

DocOrBlank == {Blank, DocOpen, DocStar, Annot}

\* Line n lies in the exclusion range of nested type c: inside its declared
\* range, in the run of documentation, annotation and blank lines right
\* before it, or in the run of blank lines right after it.
InExclusionOf(ls, c, n) ==
    \/ c.range.start <= n /\ n <= c.range.end
    \/ n < c.range.start /\ \A x \in n..(c.range.start - 1) : ls[x] \in DocOrBlank
    \/ n > c.range.end /\ \A x \in (c.range.end + 1)..n : ls[x] = Blank

\* C5: the real entries of an extracted range have strictly increasing line
\* numbers, each carries the source line of its number, and every line number
\* missing between two consecutive real entries lies in the exclusion range of
\* a nested type.
C5_ContiguousExceptExclusions ==
    Extracted =>
        LET r == RealEntries(proc.range)
            ls == files[Requested.file]
        IN /\ \A k \in DOMAIN r : r[k].lineNum \in DOMAIN ls /\ r[k].content = ls[r[k].lineNum]
           /\ \A k \in 1..(Len(r) - 1) :
                 /\ r[k].lineNum < r[k + 1].lineNum
                 /\ \A n \in (r[k].lineNum + 1)..(r[k + 1].lineNum - 1) :
                       \E c \in DirectTypes(Requested) : InExclusionOf(ls, c, n)

\* Witness of C5: an extraction that skipped lines between two printed lines.
C5_Witness ==
    /\ Extracted
    /\ proc.cmd = "read-java-type-diff"
    /\ LET r == RealEntries(proc.range)
       IN \E k \in 1..(Len(r) - 1) : r[k].lineNum + 1 < r[k + 1].lineNum

\* The scenario of C6: the requested type spans s..e and has exactly one
\* direct nested type a..b with s < a <= b < e, with no documentation,
\* annotation or blank line next to the nested type or before line s.
C6_Scenario ==
    /\ Extracted
    /\ LET y == Requested
           ls == files[y.file]
       IN /\ Len(y.children) = 1
          /\ y.children[1].kind \in TypeKinds
          /\ y.children[1].children = << >>
          /\ y.range.start < y.children[1].range.start
          /\ y.children[1].range.end < y.range.end
          /\ ls[y.children[1].range.start - 1] \notin DocOrBlank
          /\ ls[y.children[1].range.end + 1] \notin DocOrBlank
          /\ y.range.start > 1 => ls[y.range.start - 1] \notin DocOrBlank

\* C6: in that scenario the output is exactly the real lines s..a-1 and
\* b+1..e and one summary entry reporting 1 inner class; no line after e.
C6_ScenarioOutput ==
    C6_Scenario =>
        LET y == Requested
            c == y.children[1]
        IN /\ RealLineNums(proc.range)
                 = (y.range.start..(c.range.start - 1)) \cup ((c.range.end + 1)..y.range.end)
           /\ Len(Sentinels(proc.range)) = 1
           /\ Sentinels(proc.range)[1].content \in {DiffSummaryText(1), ReadSummaryText(1)}

\* The same for the type-diff command alone (diagnostic).
C6_DiffScenarioOutput == proc.cmd = "read-java-type-diff" => C6_ScenarioOutput

\* The same for the type-extraction command on a top-level type whose next
\* line is not a closing brace (diagnostic).
C6_ReadTopLevelScenarioOutput ==
    (/\ proc.cmd = "read-java-type"
     /\ C6_Scenario
     /\ findType(symbols, typeName)[1].parent = Null
     /\ LineOr(files[Requested.file], Requested.range.end) # Brace) => C6_ScenarioOutput

\* C7: when a consulted symbol table holds more than one symbol matching the
\* requested name, the command exits non-zero, lists every match's file and
\* kind, and prints no extraction or diff.
C7_AmbiguityAlwaysReported ==
    proc.cmd # "none" =>
        \A table \in (IF proc.cmd = "read-java-type" THEN {symbols}
                       ELSE {symbols, oldSymbols}) :
            Len(findType(table, typeName)) > 1 =>
                /\ proc.exitCode # 0
                /\ proc.stdout = << >>
                /\ proc.error = "multiple"
                /\ proc.listed = Listed(findType(table, typeName))

\* The same for the current (new-revision) table alone (diagnostic).
C7_NewAmbiguityReported ==
    (proc.cmd # "none" /\ Len(findType(symbols, typeName)) > 1) =>
        /\ proc.exitCode # 0
        /\ proc.stdout = << >>
        /\ proc.error = "multiple"
        /\ proc.listed = Listed(findType(symbols, typeName))

TextsTagged(o, tag) ==
    LET sel == SelectSeq(o, LAMBDA en : en.tag = tag)
    IN [k \in DOMAIN sel |-> sel[k].text]

Contents(r) == [k \in DOMAIN r |-> r[k].content]

\* The old range is absent: the type is not in the old table, its file is
\* not present at the old revision, or the old extraction is empty.
OldAbsent ==
    \/ Len(findType(oldSymbols, typeName)) = 0
    \/ Requested.file \notin DOMAIN oldFiles
    \/ Len(proc.oldRange) = 0

\* C4: with the old range empty or absent the type-diff command prints the
\* "type is new" notice first, then every non-sentinel line of the new range
\* once, in order, as added, the sentinel as summary, and nothing as removed
\* or unchanged.
C4_AbsentOldAllAdded ==
    (proc.cmd = "read-java-type-diff" /\ proc.exitCode = 0 /\ OldAbsent) =>
        /\ Len(proc.stdout) = Len(proc.range) + 1
        /\ proc.stdout[1] = NewNotice
        /\ TextsTagged(proc.stdout, "notice") = << NewNotice.text >>
        /\ TextsTagged(proc.stdout, "added") = Contents(RealEntries(proc.range))
        /\ TextsTagged(proc.stdout, "summary") = Contents(Sentinels(proc.range))
        /\ TextsTagged(proc.stdout, "removed") = << >>
        /\ TextsTagged(proc.stdout, "unchanged") = << >>

\* Witness of C4: the type is in the old table but its file is not present at
\* the old revision, and the new range has real lines and a sentinel.
C4_Witness ==
    /\ proc.cmd = "read-java-type-diff"
    /\ proc.exitCode = 0
    /\ Len(findType(oldSymbols, typeName)) > 0
    /\ Requested.file \notin DOMAIN oldFiles
    /\ Len(RealEntries(proc.range)) > 1
    /\ Len(Sentinels(proc.range)) = 1

\* A second case of C4: the file is there but the old table lacks the type.
C4_WitnessNoOldType ==
    /\ proc.cmd = "read-java-type-diff"
    /\ proc.exitCode = 0
    /\ Len(findType(oldSymbols, typeName)) = 0
    /\ Requested.file \in DOMAIN oldFiles
    /\ Len(RealEntries(proc.range)) > 1

\* ============================================================================
\* Properties of the type differ (specification SpecDiff)
\* ============================================================================

NoAddedOrRemoved == \A k \in DOMAIN out : out[k].tag \notin {"added", "removed"}

\* C2: diffing a non-empty range against itself prints no added and no
\* removed entry and prints every non-sentinel line once, in order, as
\* unchanged.
C2_SelfDiffAllUnchanged ==
    (dpc = "done" /\ oldTypeContent = newTypeContent /\ Len(newTypeContent) > 0) =>
        /\ NoAddedOrRemoved
        /\ TextsTagged(out, "unchanged") = Contents(RealEntries(newTypeContent))
        /\ TextsTagged(out, "notice") = << >>

\* Witness of C2: a finished self-diff of a range with a repeated line and a
\* sentinel.
C2_Witness ==
    /\ dpc = "done"
    /\ oldTypeContent = newTypeContent
    /\ Len(Sentinels(newTypeContent)) = 1
    /\ \E k \in DOMAIN newTypeContent : \E l \in DOMAIN newTypeContent :
          /\ k < l
          /\ newTypeContent[k].lineNum # -1
          /\ newTypeContent[l].lineNum # -1
          /\ newTypeContent[k].content = newTypeContent[l].content
    /\ Len(TextsTagged(out, "unchanged")) = Len(newTypeContent) - 1

\* C3: a diff of a type present in both revisions that shows no added and no
\* removed entry comes from an old and a new range with the same non-sentinel
\* line contents in the same order.
C3_AllUnchangedMeansSame ==
    (dpc = "done" /\ Len(oldTypeContent) > 0 /\ NoAddedOrRemoved) =>
        Contents(RealEntries(oldTypeContent)) = Contents(RealEntries(newTypeContent))

\* ----------------------------------------------------------------------------
\* Plan generator properties (checked under SpecPlan)

\* The generator has just written porting-plan.json.
PlanWritten == proc.cmd = "generate-porting-plan" /\ proc.exitCode = 0 /\ proc.wrotePlan

\* C8: immediately after a run of the plan generator that writes
\* porting-plan.json, every portingState and every deleted-file status in the
\* file is "pending", whatever the file held before the run.
C8_AllPendingAfterGeneration ==
    PlanWritten =>
        /\ \A k \in DOMAIN PortingStates(planFile) : PortingStates(planFile)[k] = "pending"
        /\ \A k \in DOMAIN planFile.deletedFiles : planFile.deletedFiles[k].status = "pending"

\* A run overwrote a plan that held a done mark, and wrote types with
\* candidates as well as a deleted file.
C8_Witness ==
    /\ PlanWritten
    /\ proc.overwroteDone
    /\ Len(planFile.deletedFiles) > 0
    /\ \E k \in DOMAIN planFile.portingOrder :
          /\ "types" \in DOMAIN planFile.portingOrder[k]
          /\ \E t \in DOMAIN planFile.portingOrder[k].types :
                planFile.portingOrder[k].types[t].candidateFiles # << >>

\* The change list in another order.
Reordered(changes) ==
    {[k \in DOMAIN changes |-> changes[f[k]]] : f \in Permutations(DOMAIN changes)}

\* C9: for the symbol tables the run loaded, portingOrder depends only on the
\* set of change-list entries: the comparator ties no two entries of the plan,
\* and every reordering of the change list yields the same portingOrder.
C9_OrderDeterminedBySet ==
    PlanWritten =>
        /\ \A i, j \in DOMAIN planFile.portingOrder :
              i # j => ComparePortingEntries(planFile.portingOrder[i],
                                             planFile.portingOrder[j]) # 0
        /\ \A changes \in Reordered(changeList) :
              BuildPlan(changes, symbols, targetSymbols).portingOrder = planFile.portingOrder

\* A plan of three entries, two of which tie on type count and kind, written
\* in an order other than that of the change list.
C9_Witness ==
    /\ PlanWritten
    /\ Len(planFile.portingOrder) >= 3
    /\ planFile.portingOrder # ProcessChanges(changeList, symbols, targetSymbols).portingOrder
    /\ \E i, j \in DOMAIN planFile.portingOrder :
          /\ i # j
          /\ ComparePortingEntriesNoPath(planFile.portingOrder[i],
                                         planFile.portingOrder[j]) = 0

\* Code-unit (lexicographic) order of the paths: git lists them in it.
CodeUnitLeq(a, b) ==
    LET pos(x) == CHOOSE k \in DOMAIN ChangedPaths : JoinPath(Root, ChangedPaths[k]) = x
    IN pos(a) <= pos(b)

\* X may precede Y: by type count, by the kind of single-type files, and by
\* the given order of the paths when those are equal.
MayPrecede(x, y, PathLeq(_, _)) ==
    /\ TypeCount(x) <= TypeCount(y)
    /\ TypeCount(x) = 1 /\ TypeCount(y) = 1 =>
           typeOrder(x.types[1].kind) <= typeOrder(y.types[1].kind)
    /\ /\ TypeCount(x) = TypeCount(y)
       /\ TypeCount(x) = 1 => x.types[1].kind = y.types[1].kind
       => PathLeq(x.javaSourcePath, y.javaSourcePath)

\* C10 as stated: whenever X precedes Y in the generated portingOrder, X has
\* at most as many types, for single-type files at most the kind priority, and
\* on equal count and kind a lexicographically not greater path.
C10_SortedLexicographic ==
    PlanWritten =>
        \A i, j \in DOMAIN planFile.portingOrder :
            i < j => MayPrecede(planFile.portingOrder[i], planFile.portingOrder[j],
                                CodeUnitLeq)

CollationLeq(a, b) == localeCompare(a, b) <= 0

\* C10 amended: the same, with the paths compared by localeCompare (collation
\* order, in which letter case does not decide first) instead of
\* lexicographically.
C10_SortedByCollation ==
    PlanWritten =>
        \A i, j \in DOMAIN planFile.portingOrder :
            i < j => MayPrecede(planFile.portingOrder[i], planFile.portingOrder[j],
                                CollationLeq)

\* A plan in which the count and the kind both decide, written in an order
\* other than that of the change list.
C10_Witness ==
    /\ PlanWritten
    /\ planFile.portingOrder # ProcessChanges(changeList, symbols, targetSymbols).portingOrder
    /\ \E i, j \in DOMAIN planFile.portingOrder :
          i < j /\ TypeCount(planFile.portingOrder[i]) < TypeCount(planFile.portingOrder[j])
    /\ \E i, j \in DOMAIN planFile.portingOrder :
          /\ i < j
          /\ TypeCount(planFile.portingOrder[i]) = 1
          /\ TypeCount(planFile.portingOrder[j]) = 1
          /\ typeOrder(planFile.portingOrder[i].types[1].kind)
                < typeOrder(planFile.portingOrder[j].types[1].kind)

\* The entries of the written plan that carry type information.
TypedEntries == {k \in DOMAIN planFile.portingOrder : "types" \in DOMAIN planFile.portingOrder[k]}

\* The names and kinds of an entry's types, in order.
NamesAndKinds(entry) ==
    [t \in DOMAIN entry.types |-> <<entry.types[t].name, entry.types[t].kind>>]

\* The scenario of C11: Animation.java is the one modified file, and the
\* reference table on disk declares class Animation and enum MixBlend in it.
C11_Scenario ==
    /\ PlanWritten
    /\ changeList = << [status |-> "M", path |-> "Animation.java"] >>
    /\ symbols = StaleRefTable

\* C11: in every entry of a written plan the types are ordered by kind
\* priority enum < interface < class and, within a kind, by name, wherever
\* they stand in the source and however deep they are nested; in the scenario
\* the single entry's types are MixBlend (enum), then Animation (class).
C11_TypesOrderedByKindThenName ==
    PlanWritten =>
        /\ \A k \in TypedEntries :
              \A i, j \in DOMAIN planFile.portingOrder[k].types :
                  i < j =>
                      LET x == planFile.portingOrder[k].types[i]
                          y == planFile.portingOrder[k].types[j]
                      IN /\ typeOrder(x.kind) <= typeOrder(y.kind)
                         /\ x.kind = y.kind => localeCompare(x.name, y.name) <= 0
        /\ C11_Scenario =>
              /\ Len(planFile.portingOrder) = 1
              /\ NamesAndKinds(planFile.portingOrder[1])
                    = << <<"MixBlend", "enum">>, <<"Animation", "class">> >>

\* The scenario has run, and the class stands before the enum in the source.
C11_Witness ==
    /\ C11_Scenario
    /\ \E k \in TypedEntries :
          \E i, j \in DOMAIN planFile.portingOrder[k].types :
              /\ i < j
              /\ planFile.portingOrder[k].types[i].startLine
                    > planFile.portingOrder[k].types[j].startLine

\* The symbols of the target table on disk, at every depth.
TargetSymbolsAtAnyDepth ==
    IF targetSymbols = NoFile THEN {} ELSE AllSymbols(targetSymbols.symbols)

\* The target symbols a type of the plan is matched with.
SameNamedTypes(name) ==
    {s \in TargetSymbolsAtAnyDepth : s.kind \in TypeKinds /\ s.name = name}

\* The file of a symbol's declaration and of its recorded definition.
OwnLocations(s) == {s.file} \cup (IF HasDefinition(s) THEN {s.definition.file} ELSE {})

\* The recorded definitions of a symbol's direct children (its methods).
ChildDefinitions(s) ==
    {s.children[k].definition.file :
        k \in {c \in DOMAIN s.children : HasDefinition(s.children[c])}}

Recorded(s, isInner) ==
    [name |-> StripGenerics(s.name), kind |-> s.kind, startLine |-> s.range.start,
     endLine |-> s.range.end, isInner |-> isInner]

RecordedOf(entry) ==
    IF "types" \in DOMAIN entry
    THEN {[name |-> entry.types[t].name, kind |-> entry.types[t].kind,
           startLine |-> entry.types[t].startLine, endLine |-> entry.types[t].endLine,
           isInner |-> entry.types[t].isInner] : t \in DOMAIN entry.types}
    ELSE {}

\* The top-level types the reference table declares in a file.
TopLevelTypes(file) ==
    {symbols.symbols[k] : k \in {i \in DOMAIN symbols.symbols :
                                    /\ symbols.symbols[i].file = file
                                    /\ symbols.symbols[i].kind \in TypeKinds}}

TypeChildren(s) ==
    {s.children[k] : k \in {c \in DOMAIN s.children : s.children[c].kind \in TypeKinds}}

\* The types reached from a symbol through type children, at every depth.
RECURSIVE NestedTypes(_)
NestedTypes(s) == TypeChildren(s) \cup UNION {NestedTypes(c) : c \in TypeChildren(s)}

\* C13 as stated: an entry's types are the top-level types declared in its
\* file (isInner false) and their direct nested types (isInner true), and no
\* type nested deeper.
C13_OneLevelOfNesting ==
    PlanWritten /\ symbols # NoFile =>
        \A k \in DOMAIN planFile.portingOrder :
            LET top == TopLevelTypes(planFile.portingOrder[k].javaSourcePath)
            IN RecordedOf(planFile.portingOrder[k])
                  = {Recorded(s, FALSE) : s \in top}
                    \cup {Recorded(c, TRUE) : c \in UNION {TypeChildren(s) : s \in top}}

\* C13 amended: an entry's types are the top-level types declared in its file
\* (isInner false) and the types nested in them at every depth, reached
\* through class, interface and enum children (isInner true), each once.
C13_EveryLevelOfNesting ==
    PlanWritten /\ symbols # NoFile =>
        \A k \in DOMAIN planFile.portingOrder :
            LET top == TopLevelTypes(planFile.portingOrder[k].javaSourcePath)
                all == {Recorded(s, FALSE) : s \in top}
                       \cup {Recorded(c, TRUE) : c \in UNION {NestedTypes(s) : s \in top}}
            IN /\ RecordedOf(planFile.portingOrder[k]) = all
               /\ TypeCount(planFile.portingOrder[k]) = Cardinality(all)

\* A written plan holds a top-level type, a directly nested type and a type
\* nested two levels deep.
C13_Witness ==
    /\ PlanWritten
    /\ \E k \in TypedEntries :
          LET top == TopLevelTypes(planFile.portingOrder[k].javaSourcePath)
          IN \E s \in top : \E c \in TypeChildren(s) : \E d \in TypeChildren(c) :
                {Recorded(s, FALSE), Recorded(c, TRUE), Recorded(d, TRUE)}
                    \subseteq RecordedOf(planFile.portingOrder[k])

\* The change-list lines of deleted files, and of added or modified Java files.
IsDeleted(c) == c.status = "D"
IsChangedJava(c) == c.status \in {"A", "M"} /\ EndsWithJava(c.path)

\* C14: in a written plan deletedFiles holds one pending entry for every 'D'
\* line, in change-list order; portingOrder holds exactly one entry for every
\* 'A' or 'M' line of a .java path and nothing else; a change list of one
\* deleted file gives one deletedFiles entry and an empty portingOrder.
C14_EntriesFollowChangeList ==
    PlanWritten =>
        LET deleted == SelectSeq(changeList, IsDeleted)
            changed == SelectSeq(changeList, IsChangedJava)
        IN /\ planFile.deletedFiles
                 = [k \in DOMAIN deleted |->
                       [filePath |-> JoinPath(Root, deleted[k].path), status |-> "pending"]]
           /\ Len(planFile.portingOrder) = Len(changed)
           /\ {planFile.portingOrder[k].javaSourcePath : k \in DOMAIN planFile.portingOrder}
                 = {JoinPath(Root, changed[k].path) : k \in DOMAIN changed}
           /\ (Len(changeList) = 1 /\ changeList[1].status = "D") =>
                 Len(planFile.deletedFiles) = 1 /\ planFile.portingOrder = << >>

\* A plan written from a change list with a deleted file, a changed Java file
\* and a changed file that is not a Java file.
C14_Witness ==
    /\ PlanWritten
    /\ \E i, j, k \in DOMAIN changeList :
          /\ IsDeleted(changeList[i])
          /\ IsChangedJava(changeList[j])
          /\ changeList[k].status \in {"A", "M"} /\ ~EndsWithJava(changeList[k].path)
    /\ Len(planFile.deletedFiles) = 1
    /\ Len(planFile.portingOrder) = 1

\* C15: when an invocation of the indexer fails, the run is aborted and exits
\* non-zero, and no plan is produced from tables an earlier run left behind.
\* A table on disk other than the freshly written one shows that the
\* invocation for that tree failed; so a plan is written only with both
\* tables fresh.
C15_IndexerFailureAborts ==
    PlanWritten => symbols = RefTable /\ targetSymbols = TargetTable

\* C16: a run that finds no loadable target table still writes a plan, with
\* empty candidateFiles throughout; a run that finds no loadable reference
\* table still writes one portingOrder entry for every added or modified Java
\* file, each without types.
C16_MissingTablesTolerated ==
    PlanWritten =>
        /\ targetSymbols = NoFile =>
              \A k \in TypedEntries : \A t \in DOMAIN planFile.portingOrder[k].types :
                  planFile.portingOrder[k].types[t].candidateFiles = << >>
        /\ symbols = NoFile =>
              /\ TypedEntries = {}
              /\ Len(planFile.portingOrder) = Len(SelectSeq(changeList, IsChangedJava))

\* A plan written without a target table, holding a type that the target
\* table of the tree does declare.
C16_Witness ==
    /\ PlanWritten
    /\ targetSymbols = NoFile
    /\ \E k \in TypedEntries : \E t \in DOMAIN planFile.portingOrder[k].types :
          findCandidateFiles(TargetTable, planFile.portingOrder[k].types[t].name) # << >>

\* A plan written without a reference table, from a change list with changed
\* Java files that the reference table of the tree does declare.
C16_WitnessNoReference ==
    /\ PlanWritten
    /\ symbols = NoFile
    /\ Len(planFile.portingOrder) >= 2
    /\ \E k \in DOMAIN planFile.portingOrder :
          extractTypesFromFile(RefTable, planFile.portingOrder[k].javaSourcePath) # << >>

NamedIn(table, name) ==
    {y \in AllSymbols(table) : y.name = name /\ y.kind # "package"}

AbsentInNew == NamedIn(symbols, typeName) = {}

UniqueInNew == Len(findType(symbols, typeName)) = 1

NewFileOf == (CHOOSE y \in NamedIn(symbols, typeName) : TRUE).file

AbsentOnlyInOld ==
    /\ UniqueInNew
    /\ NewFileOf \in DOMAIN files
    /\ NamedIn(oldSymbols, typeName) = {} \/ NewFileOf \notin DOMAIN oldFiles

\* C17: in the type-diff command a type absent from the new-revision symbol
\* table ends the run with exit code 1, the "not found" diagnostic and no diff
\* output, and so does a type whose file cannot be fetched at the new revision
\* (the diagnostic then names the failed fetch); with the plan file readable, a
\* type or file absent only at the old revision ends with exit code 0.
C17_NewMissingFatalOldMissingTolerated ==
    proc.cmd = "read-java-type-diff" =>
        /\ AbsentInNew =>
              proc.exitCode = 1 /\ proc.error = "notfound" /\ proc.stdout = << >>
        /\ (UniqueInNew /\ NewFileOf \notin DOMAIN files) =>
              /\ proc.exitCode = 1 /\ proc.stdout = << >>
              /\ planFile # NoFile => proc.error = "show"
        /\ (AbsentOnlyInOld /\ planFile # NoFile) =>
              proc.exitCode = 0 /\ proc.error = "none"

\* The type-diff command has run for a type declared only at the new revision.
C17_Witness ==
    /\ proc.cmd = "read-java-type-diff"
    /\ AbsentOnlyInOld
    /\ NamedIn(oldSymbols, typeName) = {}
    /\ planFile # NoFile
    /\ proc.exitCode = 0
    /\ Len(proc.stdout) > 0

\* The type-diff command has run for a type whose file is missing at the new
\* revision.
C17_WitnessShowFailed ==
    /\ proc.cmd = "read-java-type-diff"
    /\ UniqueInNew
    /\ NewFileOf \notin DOMAIN files
    /\ proc.error = "show"

\* The type-diff command has run for a name the new table does not hold.
C17_WitnessNotFound ==
    /\ proc.cmd = "read-java-type-diff"
    /\ AbsentInNew
    /\ proc.error = "notfound"

\* The type-diff command has run for a type whose file is missing only at the
\* old revision.
C17_WitnessOldFileMissing ==
    /\ proc.cmd = "read-java-type-diff"
    /\ UniqueInNew
    /\ NamedIn(oldSymbols, typeName) # {}
    /\ NewFileOf \in DOMAIN files
    /\ NewFileOf \notin DOMAIN oldFiles
    /\ proc.exitCode = 0


\* ============================================================================
\* C19
\* ============================================================================
SentinelsOf(range) == {k \in DOMAIN range : range[k].lineNum = -1}

\* C19: sentinel entries never participate in the matching: once the matched
\* arrays exist, no sentinel index of the old range and no sentinel index of
\* the new range is marked as matched, even when a real line has the
\* sentinel's text.
C19_SentinelsNeverMatched ==
    dpc \in {"match", "walk", "done"} /\ Len(oldTypeContent) # 0 =>
        /\ \A k \in SentinelsOf(oldTypeContent) : ~matched.old[k]
        /\ \A k \in SentinelsOf(newTypeContent) : ~matched.new[k]

\* ============================================================================
\* C20
\* ============================================================================
SummaryPositions == {k \in DOMAIN out : out[k].tag = "summary"}

\* C20: when the new range ends in a summary sentinel, the finished output
\* holds exactly one summary entry and that entry is the last one.
C20_SummaryOnceAndLast ==
    dpc = "done" /\ SentinelsOf(newTypeContent) # {} =>
        SummaryPositions = {Len(out)}


\* ============================================================================
\* C21
\* ============================================================================
IsErrorLine(k) == includes(compilerOutput[k], ErrorMarker)

FirstError == Min({k \in DOMAIN compilerOutput : IsErrorLine(k)})

CompileFailedOnError ==
    /\ proc.cmd = "compile-cpp"
    /\ proc.error = "compile"
    /\ \E k \in DOMAIN compilerOutput : IsErrorLine(k)

\* The last line of the printed block, which starts at the first error.
BlockEnd == FirstError + Len(proc.stdout) - 1

PrintedIsBlockAtFirstError ==
    /\ Len(proc.stdout) >= 1
    /\ BlockEnd <= Len(compilerOutput)
    /\ proc.stdout = SubSeq(compilerOutput, FirstError, BlockEnd)
    /\ \A k \in (FirstError + 1)..BlockEnd : ~IsErrorLine(k)

IsContextOrNote(k) ==
    \/ includes(compilerOutput[k], NoteMarker)
    \/ startsWithSpace(compilerOutput[k]) /\ trim(compilerOutput[k]) # ""

\* C21 as stated: after a failed compilation whose output holds an error line,
\* the printed lines are one contiguous block of the output that starts at the
\* first error line, holds no second error line, and holds after its first
\* line only context lines and note lines.
C21_FirstErrorBlockOnly ==
    CompileFailedOnError =>
        /\ PrintedIsBlockAtFirstError
        /\ \A k \in (FirstError + 1)..BlockEnd : IsContextOrNote(k)

\* C21, amended: as above, except that the block may end with the blank line
\* that follows the error's notes.
C21_FirstErrorBlockWithClosingBlank ==
    CompileFailedOnError =>
        /\ PrintedIsBlockAtFirstError
        /\ \A k \in (FirstError + 1)..BlockEnd :
              \/ IsContextOrNote(k)
              \/ /\ k = BlockEnd
                 /\ trim(compilerOutput[k]) = ""
                 /\ \E n \in FirstError..(k - 1) : includes(compilerOutput[n], NoteMarker)

\* A failed compilation printed an error with a context line and a note, and
\* left out a line before the error and a line after the block.
C21_Witness ==
    /\ CompileFailedOnError
    /\ FirstError > 1
    /\ Len(proc.stdout) >= 3
    /\ BlockEnd < Len(compilerOutput)
    /\ \E k \in (FirstError + 1)..BlockEnd : includes(compilerOutput[k], NoteMarker)


\* ============================================================================
\* C22
\* ============================================================================
\* The pairs <<old index, new index>> (1-based) the matching pass forms: the
\* old index whose flag an iteration sets, with the new index of that iteration.
GreedyPairs(old, new) ==
    LET acc[n \in 0..Len(new)] ==
            IF n = 0 THEN [m |-> NoneMatched(old, new), pairs |-> {}]
            ELSE LET prev == acc[n - 1]
                     next == MatchIter(old, new, prev.m, n - 1)
                 IN [m |-> next,
                     pairs |-> prev.pairs
                                 \cup {<<o, n>> : o \in {x \in DOMAIN old :
                                                           next.old[x] /\ ~prev.m.old[x]}}]
    IN acc[Len(new)].pairs

EmitsUnchanged ==
    /\ dpc = "walk"
    /\ Len(out') = Len(out) + 1
    /\ out'[Len(out')].tag = "unchanged"

\* C22: whenever the walk emits an unchanged entry, the old line at the old
\* cursor and the new line at the new cursor are the two ends of one match of
\* the matching pass, hence have identical content.
C22_UnchangedPairsAreMatches ==
    [][EmitsUnchanged =>
          /\ <<cursor.i + 1, cursor.j + 1>> \in GreedyPairs(oldTypeContent, newTypeContent)
          /\ oldTypeContent[cursor.i + 1].content = newTypeContent[cursor.j + 1].content]_vars


\* ============================================================================
\* C23
\* ============================================================================
MatchingDone == dpc \in {"walk", "done"} /\ Len(oldTypeContent) # 0

Occurrences(range, c) == Cardinality({k \in DOMAIN range : range[k].content = c})

MatchedWith(range, flags, c) ==
    Cardinality({k \in DOMAIN range : range[k].content = c /\ flags[k]})

Smaller(a, b) == IF a <= b THEN a ELSE b

ContentsInUse == {oldTypeContent[k].content : k \in DOMAIN oldTypeContent}
                    \cup {newTypeContent[k].content : k \in DOMAIN newTypeContent}

\* C23: after the matching pass the claims pair new indices with old indices
\* one to one, paired entries have identical content, every matched new entry
\* is paired with the lowest old index of its content that no earlier new entry
\* claimed, the flagged entries are exactly the paired ones, and for every
\* content the number of matched entries on either side is the smaller of its
\* numbers of occurrences in the old and in the new range.
C23_GreedyPairing ==
    MatchingDone =>
        LET pairs == GreedyPairs(oldTypeContent, newTypeContent) IN
        /\ \A p \in pairs, q \in pairs : (p[1] = q[1] \/ p[2] = q[2]) => p = q
        /\ \A p \in pairs :
              /\ oldTypeContent[p[1]].content = newTypeContent[p[2]].content
              /\ p[1] = Min({k \in DOMAIN oldTypeContent :
                               /\ oldTypeContent[k].content = newTypeContent[p[2]].content
                               /\ ~\E q \in pairs : q[1] = k /\ q[2] < p[2]})
        /\ \A k \in DOMAIN oldTypeContent : matched.old[k] <=> \E p \in pairs : p[1] = k
        /\ \A k \in DOMAIN newTypeContent : matched.new[k] <=> \E p \in pairs : p[2] = k
        /\ \A c \in ContentsInUse :
              LET n == Smaller(Occurrences(oldTypeContent, c), Occurrences(newTypeContent, c))
              IN /\ MatchedWith(oldTypeContent, matched.old, c) = n
                 /\ MatchedWith(newTypeContent, matched.new, c) = n

\* The matching pass has ended with a content that occurs more often in the
\* old range than in the new one: a later occurrence is left unclaimed, and a
\* second new line found its first occurrence taken.
C23_Witness ==
    /\ MatchingDone
    /\ cursor.i = 0 /\ cursor.j = 0
    /\ \E p \in GreedyPairs(oldTypeContent, newTypeContent),
          q \in GreedyPairs(oldTypeContent, newTypeContent) :
          /\ p[2] < q[2] /\ p[1] < q[1]
          /\ oldTypeContent[p[1]].content = oldTypeContent[q[1]].content
    /\ \E p \in GreedyPairs(oldTypeContent, newTypeContent) : \E k \in DOMAIN oldTypeContent :
          /\ k > p[1] /\ ~matched.old[k]
          /\ oldTypeContent[k].content = oldTypeContent[p[1]].content


\* ============================================================================
\* C24
\* ============================================================================
\* The start line the stated rule gives: going up from the line above the
\* declaration, blank, documentation-continuation and annotation lines extend
\* the start, a documentation opener becomes the start and ends the scan, and
\* any other line ends the scan without being included.
RECURSIVE StatedStart(_, _, _)
StatedStart(ls, k, start) ==
    IF k < 1 THEN start
    ELSE IF StartsDocOpen(ls[k]) THEN k
    ELSE IF ls[k] = Blank \/ StartsStar(ls[k]) \/ StartsAt(ls[k])
         THEN StatedStart(ls, k - 1, k)
    ELSE start

\* C24: in both commands the lines extracted from above the declaration's
\* start line are exactly the lines the stated backward scan covers.
C24_BackwardScanAsStated ==
    (Extracted /\ proc.cmd \in {"read-java-type", "read-java-type-diff"}) =>
        LET ls == files[Requested.file]
            start == Requested.range.start
        IN {n \in RealLineNums(proc.range) : n < start}
              = StatedStart(ls, start - 1, start)..(start - 1)


\* ============================================================================
\* C25
\* ============================================================================
\* The types of the current table, at any depth, with the requested name.
TypesNamed == {y \in AllSymbols(symbols) : y.name = typeName /\ y.kind \in TypeKinds}

\* C25: the lookups of the type-extraction and type-diff commands match only
\* classes, interfaces and enums with the requested name: the "not found"
\* error is given exactly when no such type exists, the ambiguity error only
\* when several exist, and every listed match is a type.
C25_LookupsMatchTypesOnly ==
    proc.cmd \in {"read-java-type", "read-java-type-diff"} =>
        /\ proc.error = "notfound" <=> TypesNamed = {}
        /\ proc.error = "multiple" => Cardinality(TypesNamed) > 1
        /\ \A k \in DOMAIN proc.listed : proc.listed[k].kind \in TypeKinds


\* ============================================================================
\* C26
\* ============================================================================
KeptTexts ==
    LET sel == SelectSeq(out, LAMBDA en : en.tag \in {"added", "unchanged"})
    IN [k \in DOMAIN sel |-> sel[k].text]

WalkFinished == dpc = "done" /\ Len(oldTypeContent) # 0

WalkOutputComplete ==
    WalkFinished =>
        /\ KeptTexts = Contents(RealEntries(newTypeContent))
        /\ Len(TextsTagged(out, "removed")) + Len(TextsTagged(out, "unchanged"))
              = Len(RealEntries(oldTypeContent))

\* C26: for a non-empty old range the diff terminates, and its finished output
\* holds every non-sentinel new line exactly once and in order as an added or
\* unchanged entry, and as many removed plus unchanged entries as the old range
\* has non-sentinel lines.
C26_WalkEmitsNewRangeOnce == []WalkOutputComplete /\ <>(dpc = "done")

\* A walk has finished that printed added, removed and unchanged entries and
\* the summary of the new range.
C26_Witness ==
    /\ WalkFinished
    /\ \A tag \in {"added", "removed", "unchanged", "summary"} :
          Len(TextsTagged(out, tag)) > 0


\* ============================================================================
\* C27
\* ============================================================================
GeneratorRan == proc'.cmd = "generate-porting-plan"

\* C27: a run of the plan generator that ends with a non-zero exit leaves
\* porting-plan.json, done marks included, as it was; the type-extraction,
\* type-diff and compile-check commands leave porting-plan.json and the symbol
\* tables as they were; and porting-plan.json changes only in a generator run
\* that ends with exit code 0 or by an edit of the porting workflow.
C27_PlanWrittenOnlyOnSuccess ==
    [][/\ (GeneratorRan /\ proc'.exitCode # 0) => planFile' = planFile
       /\ proc'.cmd \in {"read-java-type", "read-java-type-diff", "compile-cpp"} =>
             UNCHANGED <<planFile, symbols, oldSymbols, targetSymbols>>
       /\ planFile' # planFile =>
             \/ proc'.cmd = "workflow"
             \/ GeneratorRan /\ proc'.exitCode = 0 /\ proc'.wrotePlan]_vars

\* A generator run has aborted on a directory whose porting-plan.json holds a
\* done mark, after the tables were indexed again.
C27_Witness ==
    /\ proc.cmd = "generate-porting-plan"
    /\ proc.exitCode = 1
    /\ proc.error = "exception"
    /\ HasDone(planFile)
    /\ symbols = RefTable

============================================================================
